---- MODULE Spec2Model ----
(***************************************************************************)
(* The ingest / window / publish pipeline of the activity tracker:         *)
(* EventManager (electron/src/main/handlers/EventManager.ts) with the      *)
(* mouse, keyboard, window and screenshot handlers it drives.              *)
(*                                                                         *)
(* Time is Date.now() in milliseconds.  The clock moves in single          *)
(* milliseconds (Tock) or jumps to the instant the window timer is due     *)
(* (Sleep).  A setInterval callback is never early and can be late: it     *)
(* fires at an instant in [due, due + MaxJitter] and the timer is re-armed *)
(* from the instant the callback ran.                                      *)
(*                                                                         *)
(* ObservationData.windowStartTime / windowEndTime are the decimal         *)
(* renderings (Number.toString) of non-negative integers; the model keeps  *)
(* the integers, which the rendering maps one-to-one.                      *)
(*                                                                         *)
(* Four specifications share the variables: Spec (FairSpec) is the         *)
(* pipeline; ClickSpec and SummarySpec feed processEventsForWindow the     *)
(* events of one window; SamplerSpec feeds one MouseHandler raw mousemove  *)
(* and wheel events and processes the window of what it emits.             *)
(***************************************************************************)
EXTENDS Integers, Sequences, FiniteSets, TLC

VARIABLES
    now,             \* Date.now()
    fine,            \* 1 ms clock steps taken since the last jump of the clock
    isRunning,       \* EventManager.isRunning
    statsInterval,   \* EventManager.statsInterval # null
    activeTimers,    \* interval timers set by setInterval and not cleared
    nextFire,        \* instant the armed interval timer is due
    windowedEvents,  \* EventManager.windowedEvents
    eventCounter,    \* EventManager.eventCounter
    inflight,        \* publishWindowData calls suspended at `await captureScreenshot()`
    published,       \* the 'window-data' payloads emitted so far, in emission order
    failed,          \* ticks whose screenshot capture failed
    mouseTracking,   \* MouseHandler.isTracking
    keyboardTracking,\* KeyboardHandler.isTracking
    windowTracking,  \* WindowHandler.isTracking
    shotTracking,    \* ScreenshotHandler.isTracking
    mouseListeners,  \* number of 'mouse-event' listeners on mouseHandler
    keyboardListeners,\* number of 'keyboard-event' listeners on keyboardHandler
    windowListeners, \* number of 'window-event' listeners on windowHandler
    currentWindow,   \* WindowHandler.currentWindow
    tickCount,       \* timer callbacks run so far
    startCount,      \* start() calls that passed the isRunning guard
    evlog,           \* history: per event id, the circumstances of its append
    pubAtStop,       \* history: Len(published) when stop() last returned
    ctrAtStop,       \* history: eventCounter when stop() last returned
    sourceErrors,    \* history: errors reported by an event source
    errorsEmitted,   \* 'error' events EventManager emitted
    clickIn,         \* clustering harness: the mouse events handed to aggregateMouseClicks
    clickOut,        \* clustering harness: its result
    clickData,       \* clustering harness: the ObservationData of the window holding clickIn
    sNow,            \* sampler harness: Date.now()
    sTracking,       \* sampler harness: MouseHandler.isTracking
    pointer,         \* sampler harness: where the pointer is
    lastPosition,    \* MouseHandler.lastPosition: <<>> for null, else <<position>>
    lastMoveTime,    \* MouseHandler.lastMoveTime
    lastScrollTime,  \* MouseHandler.lastScrollTime
    pendingScrollDelta, \* MouseHandler.pendingScrollDelta
    samples,         \* the 'mouse-event' payloads the MouseHandler emitted, in order
    sampleData,      \* sampler harness: the ObservationData of the window holding samples
    rawMoves,        \* history: mousemove events the listener handled while tracking
    rawWheels,       \* history: wheel events the listener handled while tracking
    rawRotation,     \* history: sum of the rotations of those wheel events
    burst,           \* history: every raw event so far was a move 1 ms after the previous one
    sSessions,       \* history: MouseHandler.start() calls that began tracking
    sessionMoves,    \* history: Move samples emitted since the last such start()
    sumIn,           \* summary harness: the events of a window, in arrival order
    sumData,         \* summary harness: the ObservationData of that window
    sumOwn,          \* summary harness: per kind, the ObservationData of the window
                     \* holding only the events of sumIn of that kind
    kTracking,       \* keyboard harness: KeyboardHandler.isTracking
    keyStates,       \* KeyboardHandler.keyStates: the keycodes the map holds
    keyEvents,       \* the 'keyboard-event' payloads the KeyboardHandler emitted, in order
    lastKeyEvent,    \* history: per keycode, the last raw event uiohook reported since start()
    wTracking,       \* window harness: WindowHandler.isTracking
    pollInterval,    \* WindowHandler.pollInterval # null
    wCurrent,        \* window harness: WindowHandler.currentWindow
    pollsInFlight,   \* checkWindowChange calls suspended at `await activeWindow()`
    windowEmitted,   \* the 'window-event' payloads the WindowHandler emitted, in order,
                     \* each with the tracking session it was emitted in (0: while stopped)
    windowErrors,    \* 'window-error' events the WindowHandler emitted
    wSession,        \* history: WindowHandler.start() calls that began tracking
    pollsStarted,    \* history: checkWindowChange calls that reached the await
    storedEvents,    \* MouseHandler.events, each event as the number of the addEvent call
                     \* that pushed it
    addEventCalls,   \* history: MouseHandler.addEvent calls so far
    historySteps,    \* history: clearEvents calls the history harness made
    graphState,      \* conductor: per graph.invoke call, the channels of StateAnnotation
    nextNode,        \* conductor: per run, the node the compiled graph runs next
    nodeAwaits,      \* conductor: per run, the agent call its node awaits, Null between nodes
    nodesRun,        \* history: per run, the nodes the graph has called
    executedActions, \* history: the commands handed to responseAgent.executeAction
    responseActive,  \* ResponseAgent.isActive
    stickyPosition,  \* movement: window.getPosition() of the sticky window
    moveTarget,      \* movement: (endX, endY) of the moveLinear call under way
    moveSteps,       \* movement: `steps` of that call
    moveOrigin,      \* movement: `start` of that call
    moveIntervalId,  \* movement: the interval of that call is set
    moveResolved,    \* movement: the promise of that call is resolved
    moveCalls,       \* history: calls of moveLinear, moveJerk and moveCursor so far
    cursorIntervalId, \* movement: the interval of the moveCursor call under way is set
    jerkTimeout,     \* movement: the timeout of the moveJerk call under way is pending
    jerkSteps,       \* history: iterations of the loop of that moveJerk call
    cursorPosition,  \* movement: the point last handed to mouse.setPosition, or Null
    moveToCalls      \* movement: the calls of moveTo: end, type, what each awaits

vars == <<now, fine, isRunning, statsInterval, activeTimers, nextFire, windowedEvents,
          eventCounter, inflight, published, failed, mouseTracking,
          keyboardTracking, windowTracking, shotTracking, mouseListeners,
          keyboardListeners, windowListeners, currentWindow,
          tickCount, startCount, evlog, pubAtStop, ctrAtStop, sourceErrors, errorsEmitted,
          clickIn, clickOut, clickData,
          sNow, sTracking, pointer, lastPosition, lastMoveTime, lastScrollTime,
          pendingScrollDelta, samples, sampleData, rawMoves, rawWheels, rawRotation, burst,
          sSessions, sessionMoves, sumIn, sumData, sumOwn,
          kTracking, keyStates, keyEvents, lastKeyEvent,
          wTracking, pollInterval, wCurrent, pollsInFlight, windowEmitted, windowErrors,
          wSession, pollsStarted,
          storedEvents, addEventCalls, historySteps,
          graphState, nextNode, nodeAwaits, nodesRun, executedActions, responseActive,
          stickyPosition, moveTarget, moveSteps, moveOrigin, moveIntervalId, moveResolved,
          moveCalls, cursorIntervalId, jerkTimeout, jerkSteps, cursorPosition, moveToCalls>>

pipelineVars == <<now, fine, isRunning, statsInterval, activeTimers, nextFire, windowedEvents,
          eventCounter, inflight, published, failed, mouseTracking,
          keyboardTracking, windowTracking, shotTracking, mouseListeners,
          keyboardListeners, windowListeners, currentWindow,
          tickCount, startCount, evlog, pubAtStop, ctrAtStop, sourceErrors,
          errorsEmitted>>

clickVars == <<clickIn, clickOut, clickData>>

samplerVars == <<sNow, sTracking, pointer, lastPosition, lastMoveTime, lastScrollTime,
                 pendingScrollDelta, samples, sampleData, rawMoves, rawWheels, rawRotation,
                 burst, sSessions, sessionMoves>>

summaryVars == <<sumIn, sumData, sumOwn>>

keyboardVars == <<kTracking, keyStates, keyEvents, lastKeyEvent>>

windowVars == <<wTracking, pollInterval, wCurrent, pollsInFlight, windowEmitted,
                windowErrors, wSession, pollsStarted>>

historyVars == <<storedEvents, addEventCalls, historySteps>>

\* the components that run on their own, outside the EventManager and its handlers
conductorVars == <<graphState, nextNode, nodeAwaits, nodesRun, executedActions, responseActive>>

movementVars == <<stickyPosition, moveTarget, moveSteps, moveOrigin, moveIntervalId,
                  moveResolved, moveCalls, cursorIntervalId, jerkTimeout, jerkSteps,
                  cursorPosition, moveToCalls>>

standaloneVars == <<historyVars, conductorVars, movementVars>>

harnessVars == <<clickVars, samplerVars, summaryVars, keyboardVars, windowVars, standaloneVars>>

(***************************************************************************)
(* Program constants                                                       *)
(***************************************************************************)
WINDOW_INTERVAL_MS == 20000

CLICK_AGGREGATION_THRESHOLD_MS == 500

POSITION_TOLERANCE == 5

\* MouseHandler.moveThrottleMs
moveThrottleMs == 100

\* MouseHandler.scrollThrottleMs
scrollThrottleMs == 150

(***************************************************************************)
(* Bounds of the model                                                     *)
(***************************************************************************)
MaxEvents == 2

MaxTicks == 2

MaxStarts == 1

MaxFine == 1

MaxJitter == 1

MaxClicks == 3

\* errors the event sources report
MaxErrors == 1

\* start() calls followed by the lifecycle specification
MaxCycles == 2

\* raw mouse events of the sampler harness outside the burst
MaxRaw == 4

\* raw moves of the burst of the sampler harness
BurstMoves == 1000

MaxSessions == 2

\* milliseconds of the sampler harness that may pass without a raw event
MaxQuietMs == 300

\* checkWindowChange calls the window harness follows
MaxPolls == 4

\* 'keyboard-event' emissions the keyboard harness follows
MaxKeyEvents == 3

\* events of the window of the summary harness
MaxSummary == 3

(***************************************************************************)
(* Inputs                                                                  *)
(***************************************************************************)
NoWindow == [activeApp |-> "", windowTitle |-> ""]

\* what the hook delivers on 'mousedown': position and uiohook button code
MouseDownInputs == {[x |-> 5, y |-> 5, button |-> 1]}

\* what the hook delivers on 'keydown'
KeyDownInputs == {"A"}

\* what activeWindow() resolves to (owner name, title)
\* (the second is the noWindowEvent built when it resolves to undefined)
ActiveWindows == {[activeApp |-> "Code", windowTitle |-> "main.ts"],
                  [activeApp |-> "No Active Window", windowTitle |-> ""]}

\* what activeWindow() resolves to in the window harness: also a second title
\* of the same application
PolledWindows == ActiveWindows \cup {[activeApp |-> "Code", windowTitle |-> "README.md"]}

\* points in time carried by the events of the clustering harness
ClickTimes == {0, 100, 500, 601, 2000}

ClickPositions == {[x |-> 5, y |-> 5], [x |-> 6, y |-> 5], [x |-> 8, y |-> 9], [x |-> 9, y |-> 9]}

ClickButtons == {"left", "right"}

\* Date.now() when the sampler harness begins
Epoch == 1000

\* milliseconds between a raw move and the raw event before it: inside and at
\* the move throttle
MoveGaps == {1, 100}

\* milliseconds between a raw wheel event and the raw event before it: inside
\* and at the scroll throttle
WheelGaps == {1, 150}

\* displacement of the pointer reported by a raw move
MoveSteps == {[dx |-> 10, dy |-> 0], [dx |-> 0, dy |-> 10]}

BurstStep == [dx |-> 10, dy |-> 0]

\* UiohookKeyboardEvent.keycode: UiohookKey.Backspace, UiohookKey.Tab
KeyCodes == {14, 15}

\* UiohookWheelEvent.rotation
Rotations == {-1, 2}

\* wheelDelta of the Scroll events of the summary harness: sums of rotations
ScrollDeltas == {-1, 0, 2}

\* points in time carried by the events of the summary harness
SummaryTimes == {0, 100}

(***************************************************************************)
(* IEEE 754 double precision, the arithmetic of the program's numbers.     *)
(* A number is [neg, man, exp] with value (-1)^neg * man * 2^exp, where    *)
(* man is a whole number of exactly 53 bits, or 0 with exp 0 for zero.     *)
(* Whole numbers of that size are kept as tuples of 15-bit limbs, least    *)
(* significant first, without leading zero limbs; <<>> is 0.  Every        *)
(* operation gives the exact result rounded to the nearest double, ties to *)
(* even, as the program's +, -, * and / do.  Infinities, NaN, subnormals   *)
(* and the sign of zero are left out.                                      *)
(***************************************************************************)
LimbBits == 15

LimbBase == 2 ^ LimbBits

\* bits of the significand of a double
F64Precision == 53

Limb(a, i) == IF i <= Len(a) THEN a[i] ELSE 0

RECURSIVE NatNorm(_)
NatNorm(a) ==
    IF a = <<>> THEN <<>>
    ELSE IF a[Len(a)] = 0 THEN NatNorm(SubSeq(a, 1, Len(a) - 1))
    ELSE a

RECURSIVE NatOfInt(_)
NatOfInt(n) == IF n = 0 THEN <<>> ELSE <<n % LimbBase>> \o NatOfInt(n \div LimbBase)

RECURSIVE NatToInt(_)
NatToInt(a) == IF a = <<>> THEN 0 ELSE a[1] + LimbBase * NatToInt(Tail(a))

\* number of bits of a
NatBits(a) ==
    IF a = <<>> THEN 0
    ELSE LimbBits * (Len(a) - 1)
             + CHOOSE k \in 1..LimbBits : 2 ^ (k - 1) <= a[Len(a)] /\ a[Len(a)] < 2 ^ k

\* bit i of a, bit 0 the least significant
NatBit(a, i) == (Limb(a, i \div LimbBits + 1) \div 2 ^ (i % LimbBits)) % 2

\* the k least significant bits of a are zero
NatLowZero(a, k) ==
    /\ \A j \in 1..Len(a) : j <= k \div LimbBits => a[j] = 0
    /\ Limb(a, k \div LimbBits + 1) % 2 ^ (k % LimbBits) = 0

\* a \div 2^k
NatShr(a, k) ==
    IF k \div LimbBits >= Len(a) THEN <<>>
    ELSE NatNorm([j \in 1..(Len(a) - k \div LimbBits) |->
                     a[j + k \div LimbBits] \div 2 ^ (k % LimbBits)
                         + (Limb(a, j + k \div LimbBits + 1) % 2 ^ (k % LimbBits))
                               * 2 ^ (LimbBits - (k % LimbBits))])

\* a * 2^k
NatShl(a, k) ==
    IF a = <<>> THEN <<>>
    ELSE NatNorm([j \in 1..(Len(a) + k \div LimbBits + 1) |->
                     IF j <= k \div LimbBits THEN 0
                     ELSE (Limb(a, j - k \div LimbBits) % 2 ^ (LimbBits - (k % LimbBits)))
                                  * 2 ^ (k % LimbBits)
                              + (IF j - k \div LimbBits >= 2
                                 THEN Limb(a, j - k \div LimbBits - 1)
                                          \div 2 ^ (LimbBits - (k % LimbBits))
                                 ELSE 0)])

RECURSIVE NatAddFrom(_, _, _, _)
NatAddFrom(a, b, i, carry) ==
    IF i > Len(a) /\ i > Len(b)
    THEN IF carry = 0 THEN <<>> ELSE <<carry>>
    ELSE <<(Limb(a, i) + Limb(b, i) + carry) % LimbBase>>
             \o NatAddFrom(a, b, i + 1, (Limb(a, i) + Limb(b, i) + carry) \div LimbBase)

NatAdd(a, b) == NatAddFrom(a, b, 1, 0)

\* a - b for a >= b
RECURSIVE NatSubFrom(_, _, _, _)
NatSubFrom(a, b, i, borrow) ==
    IF i > Len(a) THEN <<>>
    ELSE <<(a[i] - Limb(b, i) - borrow) % LimbBase>>
             \o NatSubFrom(a, b, i + 1, IF a[i] - Limb(b, i) - borrow < 0 THEN 1 ELSE 0)

NatSub(a, b) == NatNorm(NatSubFrom(a, b, 1, 0))

\* -1, 0 or 1 as a is less than, equal to or greater than b
RECURSIVE NatCmpFrom(_, _, _)
NatCmpFrom(a, b, i) ==
    IF i = 0 THEN 0
    ELSE IF a[i] < b[i] THEN -1
    ELSE IF a[i] > b[i] THEN 1
    ELSE NatCmpFrom(a, b, i - 1)

NatCmp(a, b) ==
    IF Len(a) < Len(b) THEN -1
    ELSE IF Len(a) > Len(b) THEN 1
    ELSE NatCmpFrom(a, b, Len(a))

\* a * d for a limb d
RECURSIVE NatMulLimbFrom(_, _, _, _)
NatMulLimbFrom(a, d, i, carry) ==
    IF i > Len(a)
    THEN IF carry = 0 THEN <<>> ELSE <<carry>>
    ELSE <<(a[i] * d + carry) % LimbBase>>
             \o NatMulLimbFrom(a, d, i + 1, (a[i] * d + carry) \div LimbBase)

NatMulLimb(a, d) == IF d = 0 THEN <<>> ELSE NatMulLimbFrom(a, d, 1, 0)

RECURSIVE NatMulFrom(_, _, _)
NatMulFrom(a, b, i) ==
    IF i > Len(b) THEN <<>>
    ELSE NatAdd(NatShl(NatMulLimb(a, b[i]), LimbBits * (i - 1)), NatMulFrom(a, b, i + 1))

NatMul(a, b) == NatMulFrom(a, b, 1)

\* the quotient of the leading limbs of cur by the top limb of b: when that
\* limb is at least LimbBase / 2, at most 2 above the quotient of cur by b
NatDivGuess(b, cur) ==
    IF Limb(cur, Len(b) + 1) >= b[Len(b)] THEN LimbBase - 1
    ELSE (Limb(cur, Len(b) + 1) * LimbBase + Limb(cur, Len(b))) \div b[Len(b)]

\* the quotient of cur by b, a limb
NatDivDigit(b, cur, guess) ==
    CHOOSE q \in (guess - 2)..guess :
        /\ q >= 0
        /\ NatCmp(NatMulLimb(b, q), cur) <= 0
        /\ NatCmp(NatMulLimb(b, q + 1), cur) > 0

\* quotient of a by b: limbs i and below of a are still to come, rem < b is
\* what the limbs above left and quot the limbs of the quotient found
RECURSIVE NatDivFrom(_, _, _, _, _)
NatDivTake(a, b, i, cur, quot, digit) ==
    NatDivFrom(a, b, i - 1, NatSub(cur, NatMulLimb(b, digit)), <<digit>> \o quot)

NatDivNext(a, b, i, cur, quot) ==
    NatDivTake(a, b, i, cur, quot, NatDivDigit(b, cur, NatDivGuess(b, cur)))

NatDivFrom(a, b, i, rem, quot) ==
    IF i = 0 THEN [quot |-> NatNorm(quot), exact |-> rem = <<>>]
    ELSE NatDivNext(a, b, i, NatNorm(<<a[i]>> \o rem), quot)

NatDivAligned(a, b) == NatDivFrom(a, b, Len(a), <<>>, <<>>)

\* quotient of a by a limb d > 0: limbs i and below of a are still to come
RECURSIVE NatDivLimbFrom(_, _, _, _, _)
NatDivLimbFrom(a, d, i, rem, quot) ==
    IF i = 0 THEN [quot |-> NatNorm(quot), exact |-> rem = 0]
    ELSE NatDivLimbFrom(a, d, i - 1, (rem * LimbBase + a[i]) % d,
                        <<(rem * LimbBase + a[i]) \div d>> \o quot)

\* quotient of a by b > 0, and whether the division is exact
NatDiv(a, b) ==
    IF Len(b) = 1
    THEN NatDivLimbFrom(a, b[1], Len(a), 0, <<>>)
    ELSE NatDivAligned(NatShl(a, LimbBits * Len(b) - NatBits(b)),
                       NatShl(b, LimbBits * Len(b) - NatBits(b)))

F64Zero == [neg |-> FALSE, man |-> <<>>, exp |-> 0]

\* man of 53 or 54 bits after rounding, cut to 53
F64Renormalized(neg, man, exp) ==
    IF NatBits(man) > F64Precision
    THEN [neg |-> neg, man |-> NatShr(man, 1), exp |-> exp + 1]
    ELSE [neg |-> neg, man |-> man, exp |-> exp]

\* round to nearest, ties to even: the bits dropped are more than half of the
\* last bit kept, or half of it and the last bit kept is odd
F64RoundsUp(man, drop, inexact) ==
    /\ NatBit(man, drop - 1) = 1
    /\ inexact \/ ~NatLowZero(man, drop - 1) \/ NatBit(man, drop) = 1

\* man of `drop` bits more than 53 (of -drop bits less)
F64Rounded(neg, man, exp, inexact, drop) ==
    IF drop <= 0
    THEN [neg |-> neg, man |-> NatShl(man, -drop), exp |-> exp + drop]
    ELSE IF F64RoundsUp(man, drop, inexact)
    THEN F64Renormalized(neg, NatAdd(NatShr(man, drop), <<1>>), exp + drop)
    ELSE [neg |-> neg, man |-> NatShr(man, drop), exp |-> exp + drop]

\* the double nearest to (-1)^neg * (man * 2^exp + rest), where 0 <= rest < 2^exp
\* and rest > 0 exactly when inexact holds; an inexact man has more than 54 bits
F64Pack(neg, man, exp, inexact) ==
    IF man = <<>> THEN F64Zero
    ELSE F64Rounded(neg, man, exp, inexact, NatBits(man) - F64Precision)

\* the double of a whole number
F64(n) == F64Pack(n < 0, NatOfInt(IF n < 0 THEN -n ELSE n), 0, FALSE)

F64Neg(x) == IF x.man = <<>> THEN x ELSE [x EXCEPT !.neg = ~x.neg]

\* the sum of (-1)^bneg * a * 2^exp and (-1)^sneg * b * 2^exp
F64AddAligned(bneg, sneg, a, b, exp, inexact) ==
    F64Pack(IF bneg = sneg \/ NatCmp(a, b) >= 0 THEN bneg ELSE sneg,
            IF bneg = sneg THEN NatAdd(a, b)
            ELSE IF NatCmp(a, b) >= 0 THEN NatSub(a, b) ELSE NatSub(b, a),
            exp, inexact)

\* big + small for big.exp >= small.exp, neither zero; a small of less than an
\* eighth of the last bit of big only makes the sum inexact
F64AddOrdered(big, small, far) ==
    F64AddAligned(big.neg, small.neg,
                  NatShl(big.man, IF far THEN 3 ELSE big.exp - small.exp),
                  IF ~far THEN small.man ELSE IF big.neg = small.neg THEN <<>> ELSE <<1>>,
                  IF far THEN big.exp - 3 ELSE small.exp,
                  far)

\* x + y
F64Add(x, y) ==
    IF x.man = <<>> THEN y
    ELSE IF y.man = <<>> THEN x
    ELSE F64AddOrdered(IF x.exp >= y.exp THEN x ELSE y,
                       IF x.exp >= y.exp THEN y ELSE x,
                       x.exp - y.exp > F64Precision + 3 \/ y.exp - x.exp > F64Precision + 3)

\* x - y
F64Sub(x, y) == F64Add(x, F64Neg(y))

\* x * y
F64Mul(x, y) ==
    IF x.man = <<>> \/ y.man = <<>> THEN F64Zero
    ELSE F64Pack(x.neg # y.neg, NatMul(x.man, y.man), x.exp + y.exp, FALSE)

\* x * k for a whole number 0 < k < LimbBase
F64Scale(x, k) ==
    IF x.man = <<>> THEN F64Zero ELSE F64Pack(x.neg, NatMulLimb(x.man, k), x.exp, FALSE)

F64Quotient(neg, exp, res) == F64Pack(neg, res.quot, exp, ~res.exact)

\* x / (y * 2^low), the low bits of y.man being zero
F64DivBy(x, y, low) ==
    F64Quotient(x.neg # y.neg, x.exp - y.exp - low - (F64Precision + 3),
                NatDiv(NatShl(x.man, F64Precision + 3), NatShr(y.man, low)))

\* x / y for y other than zero; a y.man of one limb and zeros below it, as that
\* of a small whole number, is divided by as a limb
F64Div(x, y) ==
    IF x.man = <<>> THEN F64Zero
    ELSE F64DivBy(x, y, IF NatLowZero(y.man, F64Precision - LimbBits)
                        THEN F64Precision - LimbBits ELSE 0)

\* x < y for x, y > 0
F64Below(x, y) == x.exp < y.exp \/ (x.exp = y.exp /\ NatCmp(x.man, y.man) < 0)

\* x < y
F64Less(x, y) ==
    IF x.man = <<>> THEN y.man # <<>> /\ ~y.neg
    ELSE IF y.man = <<>> THEN x.neg
    ELSE IF x.neg # y.neg THEN x.neg
    ELSE F64Below(IF x.neg THEN y ELSE x, IF x.neg THEN x ELSE y)

\* Math.max(x, y)
F64Max(x, y) == IF F64Less(x, y) THEN y ELSE x

\* Math.round(x): the nearest whole number, a half rounded towards +Infinity
MathRound(x) ==
    IF x.man = <<>> THEN 0
    ELSE (IF x.neg THEN -1 ELSE 1)
             * IF x.exp >= 0 THEN NatToInt(NatShl(x.man, x.exp))
               ELSE NatToInt(NatShr(x.man, -x.exp))
                        + IF /\ NatBit(x.man, -x.exp - 1) = 1
                             /\ x.neg => ~NatLowZero(x.man, -x.exp - 1)
                          THEN 1 ELSE 0

\* Math.round(x * scale) for a whole number 0 < scale < LimbBase
RoundScaled(x, scale) == MathRound(F64Scale(x, scale))

\* the double of the quotient a / b of two whole numbers
F64Ratio(a, b) == F64Div(F64(a), F64(b))

\* velocity, distance and direction of the move samples of the summary harness:
\* 0 px, 10 px in 100 ms and 30 px in 100 ms
SummaryKinematics == {[velocity |-> F64Zero, distance |-> 0, direction |-> 0],
                      [velocity |-> F64Ratio(10, 100), distance |-> 10, direction |-> 2],
                      [velocity |-> F64Ratio(30, 100), distance |-> 30, direction |-> -2]}

(***************************************************************************)
(* Event payloads.  One record shape for MouseEvent, KeyboardEvent and     *)
(* WindowEvent; the fields a category does not have hold "" or 0.          *)
(* velocity (pixels per millisecond) is the double the program computes;   *)
(* direction (an atan2 angle) is a whole number of PI/4, distance a whole  *)
(* number of pixels.                                                       *)
(***************************************************************************)
MouseClickEvent(x, y, button, ts) ==
    [eventType |-> "click", x |-> x, y |-> y, button |-> button, wheelDelta |-> 0,
     velocity |-> F64Zero, distance |-> 0, direction |-> 0,
     key |-> "", activeApp |-> "", windowTitle |-> "", timestamp |-> ts]

MouseMoveEvent(x, y, ts) ==
    [eventType |-> "move", x |-> x, y |-> y, button |-> "", wheelDelta |-> 0,
     velocity |-> F64Zero, distance |-> 0, direction |-> 0,
     key |-> "", activeApp |-> "", windowTitle |-> "", timestamp |-> ts]

\* the move sample of the mousemove listener, with its kinematics
MouseMoveSample(x, y, velocity, distance, direction, ts) ==
    [MouseMoveEvent(x, y, ts) EXCEPT !.velocity = velocity, !.distance = distance,
                                     !.direction = direction]

\* the aggregated scroll event of the wheel listener
MouseScrollEvent(x, y, wheelDelta, ts) ==
    [eventType |-> "scroll", x |-> x, y |-> y, button |-> "", wheelDelta |-> wheelDelta,
     velocity |-> F64Zero, distance |-> 0, direction |-> 0,
     key |-> "", activeApp |-> "", windowTitle |-> "", timestamp |-> ts]

KeyDownEvent(key, ts) ==
    [eventType |-> "key_down", x |-> 0, y |-> 0, button |-> "", wheelDelta |-> 0,
     velocity |-> F64Zero, distance |-> 0, direction |-> 0,
     key |-> key, activeApp |-> "", windowTitle |-> "", timestamp |-> ts]

WindowChangeEvent(app, title, ts) ==
    [eventType |-> "window_change", x |-> 0, y |-> 0, button |-> "", wheelDelta |-> 0,
     velocity |-> F64Zero, distance |-> 0, direction |-> 0,
     key |-> "", activeApp |-> app, windowTitle |-> title, timestamp |-> ts]

\* MouseHandler.mapButton
mapButton(buttonCode) ==
    CASE buttonCode = 1 -> "left"
      [] buttonCode = 2 -> "right"
      [] buttonCode = 3 -> "middle"
      [] OTHER -> "left"

\* ActivityEvent built by EventManager.addEvent
ActivityEvent(id, category, event) ==
    [id |-> id, category |-> category, event |-> event, timestamp |-> event.timestamp]


(***************************************************************************)
(* EventManager: pure parts of a window's computation                      *)
(***************************************************************************)
\* Math.sqrt(dx^2 + dy^2) of the click against the cluster's stored position,
\* compared with a tolerance r: for integer coordinates sqrt(d2) <= r is d2 <= r^2
SquaredDistance(a, b) == (a.x - b.x) * (a.x - b.x) + (a.y - b.y) * (a.y - b.y)

\* the test with the button comparison forgotten
CanAggregate_NoButton(lastEvent, event) ==
    /\ event.timestamp - lastEvent.timestamp <= CLICK_AGGREGATION_THRESHOLD_MS
    /\ SquaredDistance(event.event, lastEvent.event) <= POSITION_TOLERANCE * POSITION_TOLERANCE

\* the test of EventManager.aggregateMouseClicks, lines 219-223
CanAggregate(lastEvent, event) ==
    /\ event.timestamp - lastEvent.timestamp <= CLICK_AGGREGATION_THRESHOLD_MS
    /\ SquaredDistance(event.event, lastEvent.event) <= POSITION_TOLERANCE * POSITION_TOLERANCE
    /\ event.event.button = lastEvent.event.button

\* `{ ...event, numberOfClicks: 1 }`
Aggregated(event) ==
    [id |-> event.id, category |-> event.category, event |-> event.event,
     timestamp |-> event.timestamp, numberOfClicks |-> 1]

\* the loop body with a merge that moves the timestamp but does not count the click
AggregateStep_NoCount(aggregated, event) ==
    IF event.event.eventType # "click"
    THEN Append(aggregated, Aggregated(event))
    ELSE IF /\ Len(aggregated) > 0
            /\ aggregated[Len(aggregated)].category = "mouse"
            /\ aggregated[Len(aggregated)].event.eventType = "click"
            /\ CanAggregate(aggregated[Len(aggregated)], event)
         THEN [aggregated EXCEPT ![Len(aggregated)].timestamp = event.timestamp]
         ELSE Append(aggregated, Aggregated(event))

\* the loop body with a cluster that follows its latest click: a merge also
\* takes the position of the merged click
AggregateStep_Chained(aggregated, event) ==
    IF event.event.eventType # "click"
    THEN Append(aggregated, Aggregated(event))
    ELSE IF /\ Len(aggregated) > 0
            /\ aggregated[Len(aggregated)].category = "mouse"
            /\ aggregated[Len(aggregated)].event.eventType = "click"
            /\ CanAggregate(aggregated[Len(aggregated)], event)
         THEN [aggregated EXCEPT
                 ![Len(aggregated)].numberOfClicks = @ + 1,
                 ![Len(aggregated)].timestamp = event.timestamp,
                 ![Len(aggregated)].event = event.event]
         ELSE Append(aggregated, Aggregated(event))

\* one iteration of the loop of aggregateMouseClicks, lines 194-233: lastEvent
\* is the last element of `aggregated`, whatever its eventType
AggregateStep(aggregated, event) ==
    IF event.event.eventType # "click"
    THEN Append(aggregated, Aggregated(event))
    ELSE IF /\ Len(aggregated) > 0
            /\ aggregated[Len(aggregated)].category = "mouse"
            /\ aggregated[Len(aggregated)].event.eventType = "click"
            /\ CanAggregate(aggregated[Len(aggregated)], event)
         THEN [aggregated EXCEPT
                 ![Len(aggregated)].numberOfClicks = @ + 1,
                 ![Len(aggregated)].timestamp = event.timestamp]
         ELSE Append(aggregated, Aggregated(event))

RECURSIVE AggregateFrom(_, _, _)
AggregateFrom(mouseEvents, i, aggregated) ==
    IF i > Len(mouseEvents)
    THEN aggregated
    ELSE AggregateFrom(mouseEvents, i + 1, AggregateStep(aggregated, mouseEvents[i]))

\* EventManager.aggregateMouseClicks
aggregateMouseClicks(mouseEvents) == AggregateFrom(mouseEvents, 1, <<>>)

\* EventManager.formatMouseInput: the parts that join('+') concatenates (the
\* modelled hook inputs carry no modifier, so no modifier part)
formatMouseInput(event) ==
    CASE event.eventType = "click" ->
           <<(IF event.button = "" THEN "left" ELSE event.button) \o "Click">>
      [] event.eventType = "move" -> <<"Move">>
      [] OTHER -> <<IF event.wheelDelta > 0 THEN "WheelUp" ELSE "WheelDown">>

\* EventManager.formatKeyboardInput
formatKeyboardInput(event) ==
    IF event.eventType # "key_down" THEN <<>> ELSE <<event.key>>

\* the ProcessedMouseEvent built in processEventsForWindow, lines 252-270
ProcessedMouse(a) ==
    [eventType |-> a.event.eventType, x |-> a.event.x, y |-> a.event.y,
     input |-> formatMouseInput(a.event), timestamp |-> a.timestamp,
     numberOfClicks |-> a.numberOfClicks,
     velocity |-> a.event.velocity, distance |-> a.event.distance,
     direction |-> a.event.direction, wheelDelta |-> a.event.wheelDelta]

ProcessedKeyboard(e) == [input |-> formatKeyboardInput(e.event), timestamp |-> e.timestamp]

ProcessedWindow(e) == [processName |-> e.event.activeApp, windowTitle |-> e.event.windowTitle]

OfCategory(events, category) == SelectSeq(events, LAMBDA e : e.category = category)

MapSeq(s, Op(_)) == [i \in 1..Len(s) |-> Op(s[i])]

\* String.prototype.includes on the formatted input, whose parts are joined by '+'
InputIncludes(input, part) == \E i \in 1..Len(input) : input[i] = part

CountIf(s, Test(_)) == Cardinality({i \in 1..Len(s) : Test(s[i])})

\* lines 504-509: the rounded rate of clicks per second, in hundredths; the
\* value returned, Math.round(clickRate * 100) / 100, is the double nearest to
\* that many hundredths
ClickRate(clicks, durationMs) ==
    LET durationSec == F64Div(F64(durationMs), F64(1000))
        clickRate   == IF F64Less(F64Zero, durationSec)
                       THEN F64Div(F64(clicks), durationSec) ELSE F64Zero
    IN  RoundScaled(clickRate, 100)

\* the summary with every cluster counted as many times as it has clicks
calculateClickSummary_CountRaw(mouseEvents, durationMs) ==
    LET clickEvents == SelectSeq(mouseEvents, LAMBDA e : e.eventType = "click")
        RECURSIVE Raw(_)
        Raw(i) == IF i = 0 THEN 0 ELSE Raw(i - 1) + clickEvents[i].numberOfClicks
    IN  [totalClicks  |-> Raw(Len(clickEvents)),
         clickRate    |-> ClickRate(Raw(Len(clickEvents)), durationMs),
         doubleClicks |-> CountIf(clickEvents, LAMBDA e : e.numberOfClicks >= 2),
         rightClicks  |-> CountIf(clickEvents, LAMBDA e : InputIncludes(e.input, "rightClick")),
         leftClicks   |-> CountIf(clickEvents, LAMBDA e :
                              /\ ~InputIncludes(e.input, "rightClick")
                              /\ InputIncludes(e.input, "leftClick"))]

\* EventManager.calculateClickSummary; clickRate in hundredths of a click per second
calculateClickSummary(mouseEvents, durationMs) ==
    LET clickEvents == SelectSeq(mouseEvents, LAMBDA e : e.eventType = "click")
    IN  IF Len(clickEvents) = 0
        THEN [totalClicks |-> 0, clickRate |-> 0, doubleClicks |-> 0,
              rightClicks |-> 0, leftClicks |-> 0]
        ELSE [totalClicks  |-> Len(clickEvents),
              clickRate    |-> ClickRate(Len(clickEvents), durationMs),
              doubleClicks |-> CountIf(clickEvents, LAMBDA e : e.numberOfClicks >= 2),
              rightClicks  |-> CountIf(clickEvents, LAMBDA e : InputIncludes(e.input, "rightClick")),
              leftClicks   |-> CountIf(clickEvents, LAMBDA e :
                                   /\ ~InputIncludes(e.input, "rightClick")
                                   /\ InputIncludes(e.input, "leftClick"))]

Abs(n) == IF n < 0 THEN -n ELSE n

\* lines 392-398 for one move event: whether it counts as a change of direction,
\* lastDirection being <<>> for null; angles in units of PI/4
DirectionChanged(direction, lastDirection) ==
    /\ lastDirection # <<>>
    /\ Abs(direction - lastDirection[1]) > 1
    /\ Abs(direction - lastDirection[1]) < 7

\* line 399: lastDirection = event.direction || null, where 0 is falsy
NextLastDirection(direction) == IF direction = 0 THEN <<>> ELSE <<direction>>

\* the loop of calculateMovementSummary, lines 381-400, from move event i on
RECURSIVE MovementLoop(_, _, _, _)
MovementLoop(moveEvents, i, lastDirection, acc) ==
    IF i > Len(moveEvents)
    THEN acc
    ELSE LET event == moveEvents[i]
         IN  MovementLoop(moveEvents, i + 1, NextLastDirection(event.direction),
                 [totalDistance      |-> acc.totalDistance + event.distance,
                  velocities         |-> Append(acc.velocities, event.velocity),
                  maxVelocity        |-> F64Max(acc.maxVelocity, event.velocity),
                  directionalChanges |-> acc.directionalChanges
                      + IF DirectionChanged(event.direction, lastDirection) THEN 1 ELSE 0])

\* line 403: velocities.reduce((sum, v) => sum + v, 0)
RECURSIVE SumOfVelocities(_)
SumOfVelocities(velocities) ==
    IF velocities = <<>> THEN F64Zero
    ELSE F64Add(SumOfVelocities(SubSeq(velocities, 1, Len(velocities) - 1)),
                velocities[Len(velocities)])

\* line 408: velocities.reduce((sum, v) => sum + Math.pow(v - averageVelocity, 2), 0),
\* the square being the rounded product
RECURSIVE SumOfSquaredDeviations(_, _)
SumOfSquaredDeviations(velocities, averageVelocity) ==
    IF velocities = <<>> THEN F64Zero
    ELSE LET deviation == F64Sub(velocities[Len(velocities)], averageVelocity)
         IN  F64Add(SumOfSquaredDeviations(SubSeq(velocities, 1, Len(velocities) - 1),
                                           averageVelocity),
                    F64Mul(deviation, deviation))

\* lines 402-419 for at least one move event
MovementTotals(acc, n) ==
    LET averageVelocity  == F64Div(SumOfVelocities(acc.velocities), F64(n))
        movementVariance == F64Div(SumOfSquaredDeviations(acc.velocities, averageVelocity),
                                   F64(n))
    IN  [totalDistance      |-> acc.totalDistance,
         averageVelocity    |-> RoundScaled(averageVelocity, 1000),
         maxVelocity        |-> RoundScaled(acc.maxVelocity, 1000),
         directionalChanges |-> acc.directionalChanges,
         movementVariance   |-> RoundScaled(movementVariance, 1000),
         moveCount          |-> n]

\* the summary with no case for a window without move events: 0 / 0 is NaN
calculateMovementSummary_NoEmptyCase(mouseEvents) ==
    LET moveEvents == SelectSeq(mouseEvents, LAMBDA e : e.eventType = "move")
        n   == Len(moveEvents)
        acc == MovementLoop(moveEvents, 1, <<>>,
                   [totalDistance |-> 0, velocities |-> <<>>,
                    maxVelocity |-> F64Zero, directionalChanges |-> 0])
    IN  IF n = 0
        THEN [totalDistance |-> 0, averageVelocity |-> -1, maxVelocity |-> 0,
              directionalChanges |-> 0, movementVariance |-> -1, moveCount |-> 0]
        ELSE MovementTotals(acc, n)

\* EventManager.calculateMovementSummary.  Every move event carries velocity,
\* distance and direction (MouseHandler sets the three).  totalDistance in
\* pixels (a whole number of pixels is its own rounding to 2 decimals);
\* averageVelocity and maxVelocity in thousandths of a pixel per ms and
\* movementVariance in thousandths of its square: the value returned,
\* Math.round(v * 1000) / 1000, is the double nearest to that many thousandths.
calculateMovementSummary(mouseEvents) ==
    LET moveEvents == SelectSeq(mouseEvents, LAMBDA e : e.eventType = "move")
        n   == Len(moveEvents)
        acc == MovementLoop(moveEvents, 1, <<>>,
                   [totalDistance |-> 0, velocities |-> <<>>,
                    maxVelocity |-> F64Zero, directionalChanges |-> 0])
    IN  IF n = 0
        THEN [totalDistance |-> 0, averageVelocity |-> 0, maxVelocity |-> 0,
              directionalChanges |-> 0, movementVariance |-> 0, moveCount |-> 0]
        ELSE MovementTotals(acc, n)

\* lines 450-451 and 465: the rounded mean scroll amount, in hundredths
AverageScrollAmount(totalScrollDelta, scrollCount) ==
    RoundScaled(F64Div(F64(Abs(totalScrollDelta)), F64(scrollCount)), 100)

RECURSIVE SumOfWheelDelta(_)
SumOfWheelDelta(scrollEvents) ==
    IF scrollEvents = <<>> THEN 0
    ELSE scrollEvents[1].wheelDelta + SumOfWheelDelta(Tail(scrollEvents))

\* the summary with the direction taken from the sign of the signed sum
calculateScrollSummary_BySum(mouseEvents) ==
    LET scrollEvents == SelectSeq(mouseEvents, LAMBDA e : e.eventType = "scroll")
        totalScrollDelta == SumOfWheelDelta(scrollEvents)
    IN  IF Len(scrollEvents) = 0
        THEN [totalScrollDelta |-> 0, scrollCount |-> 0, averageScrollAmount |-> 0,
              scrollDirection |-> "mixed"]
        ELSE [totalScrollDelta    |-> totalScrollDelta,
              scrollCount         |-> Len(scrollEvents),
              averageScrollAmount |-> AverageScrollAmount(totalScrollDelta, Len(scrollEvents)),
              scrollDirection     |-> IF totalScrollDelta > 0 THEN "up"
                                      ELSE IF totalScrollDelta < 0 THEN "down"
                                      ELSE "mixed"]

\* EventManager.calculateScrollSummary; averageScrollAmount in hundredths: the
\* value returned, Math.round(a * 100) / 100, is the double nearest to that many
\* hundredths
calculateScrollSummary(mouseEvents) ==
    LET scrollEvents == SelectSeq(mouseEvents, LAMBDA e : e.eventType = "scroll")
        totalScrollDelta == SumOfWheelDelta(scrollEvents)
        upScrolls   == CountIf(scrollEvents, LAMBDA e : e.wheelDelta > 0)
        downScrolls == CountIf(scrollEvents, LAMBDA e : e.wheelDelta < 0)
    IN  IF Len(scrollEvents) = 0
        THEN [totalScrollDelta |-> 0, scrollCount |-> 0, averageScrollAmount |-> 0,
              scrollDirection |-> "mixed"]
        ELSE [totalScrollDelta    |-> totalScrollDelta,
              scrollCount         |-> Len(scrollEvents),
              averageScrollAmount |-> AverageScrollAmount(totalScrollDelta, Len(scrollEvents)),
              scrollDirection     |-> IF upScrolls > 0 /\ downScrolls = 0 THEN "up"
                                      ELSE IF downScrolls > 0 /\ upScrolls = 0 THEN "down"
                                      ELSE "mixed"]

\* the ProcessedMouseEvents of a window, lines 248-271
ProcessedMouseEvents(events) ==
    MapSeq(aggregateMouseClicks(OfCategory(events, "mouse")), ProcessedMouse)

\* EventManager.processEventsForWindow
processEventsForWindow(events, windowStart, windowEnd) ==
    LET mouseEvents == ProcessedMouseEvents(events) IN
    [windowStartTime |-> windowStart,
     windowEndTime   |-> windowEnd,
     durationMs      |-> windowEnd - windowStart,
     screenshotUrl   |-> "",
     mouseEvents     |-> mouseEvents,
     movementSummary |-> calculateMovementSummary(mouseEvents),
     scrollSummary   |-> calculateScrollSummary(mouseEvents),
     clickSummary    |-> calculateClickSummary(mouseEvents, windowEnd - windowStart),
     keyboardEvents  |-> MapSeq(OfCategory(events, "keyboard"), ProcessedKeyboard),
     windowEvents    |-> MapSeq(OfCategory(events, "window"), ProcessedWindow)]

(***************************************************************************)
(* aggregateMouseClicks on objects.  The events of a window are the objects *)
(* of the buffer (Array.prototype.filter copies references), so what the    *)
(* loop writes to an element of `aggregated` reaches the buffer when that   *)
(* element is an object of the buffer.  A heap is a sequence of objects, a  *)
(* reference an index of it; the objects of `mouseEvents` come first.       *)
(***************************************************************************)
\* lines 225-226: the object lastEvent after the writes
\* numberOfClicks = (lastEvent.numberOfClicks || 1) + 1 and timestamp = event.timestamp
Merged(lastEvent, event) ==
    [id |-> lastEvent.id, category |-> lastEvent.category, event |-> lastEvent.event,
     timestamp |-> event.timestamp,
     numberOfClicks |-> (IF "numberOfClicks" \in DOMAIN lastEvent
                         THEN lastEvent.numberOfClicks ELSE 1) + 1]

\* `aggregated.push(event)`: the element pushed is the event of the buffer
PushedElement_NoSpread(heap, ref) == [heap |-> heap, ref |-> ref]

\* lines 199 and 232, `aggregated.push({ ...event, numberOfClicks: 1 })`: the
\* element pushed is a new object with the properties of the event
PushedElement(heap, ref) ==
    [heap |-> Append(heap, Aggregated(heap[ref])), ref |-> Len(heap) + 1]

\* the loop of lines 194-233 from mouseEvents[i] on; `aggregated` holds references
RECURSIVE AggregateObjects(_, _, _, _)
AggregateObjects(heap, n, i, aggregated) ==
    IF i > n
    THEN [heap |-> heap, aggregated |-> aggregated]
    ELSE IF /\ heap[i].event.eventType = "click"
            /\ Len(aggregated) > 0
            /\ heap[aggregated[Len(aggregated)]].category = "mouse"
            /\ heap[aggregated[Len(aggregated)]].event.eventType = "click"
            /\ CanAggregate(heap[aggregated[Len(aggregated)]], heap[i])
    THEN AggregateObjects([heap EXCEPT ![aggregated[Len(aggregated)]] = Merged(@, heap[i])],
                          n, i + 1, aggregated)
    ELSE AggregateObjects(PushedElement(heap, i).heap, n, i + 1,
                          Append(aggregated, PushedElement(heap, i).ref))

\* the buffer after processEventsForWindow has run on the events of a window:
\* an event of the window is the object the loop left, the id telling which
BufferAfterProcessing(buffer, windowEvents) ==
    LET mouseEvents == OfCategory(windowEvents, "mouse")
        after == AggregateObjects(mouseEvents, Len(mouseEvents), 1, <<>>)
    IN  [i \in 1..Len(buffer) |->
            IF \E j \in 1..Len(mouseEvents) : mouseEvents[j].id = buffer[i].id
            THEN after.heap[CHOOSE j \in 1..Len(mouseEvents) :
                                mouseEvents[j].id = buffer[i].id]
            ELSE buffer[i]]

\* the selection that leaves out the events stamped windowStart
SelectWindow_Strict(events, windowStart) == SelectSeq(events, LAMBDA e : e.timestamp > windowStart)

\* line 167: the events of the window
SelectWindow(events, windowStart) == SelectSeq(events, LAMBDA e : e.timestamp >= windowStart)

\* the prune that empties the buffer
PruneWindow_Clear(events, windowStart) == SelectSeq(events, LAMBDA e : FALSE)

\* line 185: what the buffer keeps after the window was emitted
PruneWindow(events, windowStart) == SelectSeq(events, LAMBDA e : e.timestamp > windowStart)

\* the lower bound taken at the instant the timer was armed, so that a window
\* spans the real time since the previous tick
WindowStartOf_SinceArmed(t) == nextFire - WINDOW_INTERVAL_MS

\* line 164
WindowStartOf(t) == t - WINDOW_INTERVAL_MS


(***************************************************************************)
(* EventManager.addEvent, once per listener registered for the handler's   *)
(* event: each call takes the next id and appends to the window buffer.    *)
(* ('activity-event' is emitted once per call: eventCounter counts them.)  *)
(***************************************************************************)
RECURSIVE AddEvents(_, _, _, _, _)
AddEvents(buffer, counter, category, event, listeners) ==
    IF listeners = 0
    THEN buffer
    ELSE AddEvents(Append(buffer, ActivityEvent(counter + 1, category, event)),
                   counter + 1, category, event, listeners - 1)

\* history: the circumstances in which the event ids counter+1 .. counter+k were appended
LogAppends(log, k) ==
    log \o [i \in 1..k |-> [flushing |-> inflight # {},
                            ticks    |-> tickCount,
                            starts   |-> startCount]]

Deliver(category, event, listeners) ==
    /\ eventCounter + listeners <= MaxEvents
    /\ windowedEvents' = AddEvents(windowedEvents, eventCounter, category, event, listeners)
    /\ eventCounter' = eventCounter + listeners
    /\ evlog' = LogAppends(evlog, listeners)

(***************************************************************************)
(* MouseHandler.events: the three listeners hand every event they emit to  *)
(* addEvent before they emit it (part_009, lines 170, 266 and 301)         *)
(***************************************************************************)
\* line 106
maxEvents == 10000

\* Array.prototype.slice(begin) for a negative begin: the last -begin elements,
\* or the whole array when it is shorter
SliceFromEnd(arr, begin) ==
    IF Len(arr) + begin <= 0 THEN arr ELSE SubSeq(arr, Len(arr) + begin + 1, Len(arr))

\* the trim that keeps the last maxEvents elements
TrimBegin_KeepMax == -maxEvents

\* line 331: `-this.maxEvents + 1000`
TrimBegin == -maxEvents + 1000

\* lines 325-333: MouseHandler.addEvent
addEvent(arr, event) ==
    LET pushed == Append(arr, event)
    IN  IF Len(pushed) > maxEvents THEN SliceFromEnd(pushed, TrimBegin) ELSE pushed

\* this.addEvent(mouseEvent) in a listener; the event is kept as the number of
\* the addEvent call
StoreEvent ==
    /\ addEventCalls' = addEventCalls + 1
    /\ storedEvents' = addEvent(storedEvents, addEventCalls + 1)
    /\ UNCHANGED <<historySteps, conductorVars, movementVars>>

(***************************************************************************)
(* The handlers' sources                                                   *)
(***************************************************************************)
\* MouseHandler 'mousedown' listener
MouseDown(in) ==
    /\ mouseTracking
    /\ StoreEvent
    /\ Deliver("mouse", MouseClickEvent(in.x, in.y, mapButton(in.button), now), mouseListeners)
    /\ UNCHANGED <<now, fine, isRunning, statsInterval, activeTimers, nextFire, inflight, published,
                   failed, mouseTracking, keyboardTracking, windowTracking, shotTracking,
                   mouseListeners, keyboardListeners, windowListeners, currentWindow, tickCount, startCount, pubAtStop, ctrAtStop,
                   sourceErrors, errorsEmitted, clickVars, samplerVars, summaryVars,
                   keyboardVars, windowVars>>

\* KeyboardHandler 'keydown' listener
KeyDown(key) ==
    /\ keyboardTracking
    /\ Deliver("keyboard", KeyDownEvent(key, now), keyboardListeners)
    /\ UNCHANGED <<now, fine, isRunning, statsInterval, activeTimers, nextFire, inflight, published,
                   failed, mouseTracking, keyboardTracking, windowTracking, shotTracking,
                   mouseListeners, keyboardListeners, windowListeners, currentWindow, tickCount, startCount, pubAtStop, ctrAtStop,
                   sourceErrors, errorsEmitted, harnessVars>>

\* the comparison of the whole WindowEvent, whose timestamp differs on every poll
hasWindowChanged_WholeEvent(current, newWindow) == TRUE

\* WindowHandler.hasWindowChanged
hasWindowChanged(current, newWindow) ==
    \/ current = NoWindow
    \/ current.activeApp # newWindow.activeApp
    \/ current.windowTitle # newWindow.windowTitle

\* WindowHandler.checkWindowChange, at the instant activeWindow() resolves with
\* `info`: the comparison with currentWindow and the emission follow the await
\* without a further suspension
WindowPoll(info) ==
    /\ windowTracking
    /\ hasWindowChanged(currentWindow, info)
    /\ currentWindow' = info
    /\ Deliver("window", WindowChangeEvent(info.activeApp, info.windowTitle, now), windowListeners)
    /\ UNCHANGED <<now, fine, isRunning, statsInterval, activeTimers, nextFire, inflight, published,
                   failed, mouseTracking, keyboardTracking, windowTracking, shotTracking,
                   mouseListeners, keyboardListeners, windowListeners, tickCount, startCount, pubAtStop, ctrAtStop,
                   sourceErrors, errorsEmitted, harnessVars>>

\* number of 'window-error' listeners on windowHandler: setupWindowHandler
\* registers a listener for 'window-event' only
windowErrorListeners == 0

\* WindowHandler.checkWindowChange when activeWindow() rejects: the catch block
\* emits 'window-error', which is not the 'error' event, so an emitter without
\* a listener for it drops it; EventManager emits 'error' once per listener
WindowPollFail ==
    /\ windowTracking
    /\ sourceErrors < MaxErrors
    /\ sourceErrors' = sourceErrors + 1
    /\ errorsEmitted' = errorsEmitted + windowErrorListeners
    /\ UNCHANGED <<now, fine, isRunning, statsInterval, activeTimers, nextFire, windowedEvents,
                   eventCounter, inflight, published, failed, mouseTracking,
                   keyboardTracking, windowTracking, shotTracking, mouseListeners,
                   keyboardListeners, windowListeners, currentWindow, tickCount,
                   startCount, evlog, pubAtStop, ctrAtStop, harnessVars>>


(***************************************************************************)
(* EventManager.start / stop                                               *)
(***************************************************************************)
\* where uIOhook.start() throws during start(): in mouseHandler.start(), in
\* keyboardHandler.start(), or nowhere
StartFailures == {"none", "mouse", "keyboard"}

\* EventManager.start, followed for the first `maxStarts` calls that pass the guard
StartWithin(failAt, maxStarts) ==
    IF isRunning
    THEN UNCHANGED vars
    ELSE
        /\ startCount < maxStarts
        /\ failAt = "mouse" => ~mouseTracking
        /\ failAt = "keyboard" => ~keyboardTracking
        /\ isRunning' = TRUE
        /\ startCount' = startCount + 1
        \* setupMouseHandler, setupKeyboardHandler, setupWindowHandler
        /\ mouseListeners' = mouseListeners + 1
        /\ keyboardListeners' = keyboardListeners + 1
        /\ windowListeners' = windowListeners + 1
        \* mouseHandler.start(), keyboardHandler.start(): isTracking is reset when the hook throws
        /\ mouseTracking' = (failAt # "mouse")
        /\ keyboardTracking' = IF failAt = "mouse" THEN keyboardTracking ELSE (failAt # "keyboard")
        /\ IF failAt = "none"
           THEN /\ windowTracking' = TRUE
                /\ shotTracking' = TRUE
                \* startStatsInterval
                /\ statsInterval' = TRUE
                /\ activeTimers' = activeTimers + 1
                /\ nextFire' = now + WINDOW_INTERVAL_MS
           ELSE UNCHANGED <<windowTracking, shotTracking, statsInterval, activeTimers, nextFire>>
        /\ UNCHANGED <<now, fine, windowedEvents, eventCounter, inflight, published, failed,
                       currentWindow, tickCount, evlog,
                       pubAtStop, ctrAtStop, sourceErrors, errorsEmitted,
                   harnessVars>>

Start(failAt) == StartWithin(failAt, MaxStarts)

Stop ==
    IF ~isRunning
    THEN UNCHANGED vars
    ELSE
        /\ isRunning' = FALSE
        \* stopStatsInterval
        /\ statsInterval' = FALSE
        /\ activeTimers' = IF statsInterval THEN activeTimers - 1 ELSE activeTimers
        \* mouseHandler.stop(), keyboardHandler.stop(), screenshotHandler.stop()
        /\ mouseTracking' = FALSE
        /\ keyboardTracking' = FALSE
        /\ shotTracking' = FALSE
        \* removeAllListeners() on the mouse, keyboard and screenshot handlers
        /\ mouseListeners' = 0
        /\ keyboardListeners' = 0
        /\ pubAtStop' = Len(published)
        /\ ctrAtStop' = eventCounter
        /\ UNCHANGED <<now, fine, nextFire, windowedEvents, eventCounter, inflight, published,
                       failed, windowTracking, windowListeners, currentWindow,
                       tickCount, startCount, evlog, sourceErrors, errorsEmitted,
                   harnessVars>>

(***************************************************************************)
(* EventManager.publishWindowData                                          *)
(***************************************************************************)
\* number of 'error' listeners registered on screenshotHandler
screenshotErrorListeners == 0

\* the ids of the events of a window (history)
IdsOf(events) == [i \in 1..Len(events) |-> events[i].id]

\* lines 174-179: the payload of a tick, with the screenshot when there is one
WindowData(rec, dataUrl) ==
    [processEventsForWindow(rec.windowEvents, rec.windowStart, rec.now)
        EXCEPT !.screenshotUrl = dataUrl]

\* line 182: this.emit('window-data', processedData)
EmitWindowData(emitted, rec, dataUrl) ==
    Append(emitted, [data |-> WindowData(rec, dataUrl), tick |-> rec.tick,
                     starts |-> rec.starts, eventIds |-> IdsOf(rec.windowEvents),
                     bufferAtTick |-> rec.buffer])

\* lines 173-185, the part of publishWindowData after the await
Continue(rec, dataUrl) ==
    /\ published' = EmitWindowData(published, rec, dataUrl)
    /\ windowedEvents' = PruneWindow(BufferAfterProcessing(windowedEvents, rec.windowEvents),
                                     rec.windowStart)

\* the timer callback: lines 163-171 up to the await
Tick ==
    /\ statsInterval
    /\ now >= nextFire
    /\ tickCount < MaxTicks
    /\ tickCount' = tickCount + 1
    /\ nextFire' = now + WINDOW_INTERVAL_MS
    /\ LET rec == [tick |-> tickCount + 1, starts |-> startCount, now |-> now,
                   windowStart |-> WindowStartOf(now),
                   windowEvents |-> SelectWindow(windowedEvents, WindowStartOf(now)),
                   \* history: what the buffer held
                   buffer |-> [i \in 1..Len(windowedEvents) |->
                                  [id |-> windowedEvents[i].id,
                                   category |-> windowedEvents[i].category,
                                   timestamp |-> windowedEvents[i].timestamp]]]
       IN  /\ IF shotTracking
              THEN /\ inflight' = inflight \cup {rec}
                   /\ UNCHANGED <<published, windowedEvents>>
              ELSE \* captureScreenshot returns null at once
                   /\ Continue(rec, "")
                   /\ UNCHANGED inflight
    /\ UNCHANGED <<now, fine, isRunning, statsInterval, activeTimers, eventCounter, failed,
                   mouseTracking, keyboardTracking, windowTracking, shotTracking,
                   mouseListeners, keyboardListeners, windowListeners, currentWindow, startCount, evlog, pubAtStop, ctrAtStop, sourceErrors, errorsEmitted,
                   harnessVars>>

\* desktopCapturer.getSources resolves with a source: captureScreenshot returns
\* the ScreenshotEvent and publishWindowData runs to its end
ProviderReturn(rec) ==
    /\ rec \in inflight
    /\ inflight' = inflight \ {rec}
    /\ Continue(rec, "data:image/png")
    /\ UNCHANGED <<now, fine, isRunning, statsInterval, activeTimers, nextFire, eventCounter, failed,
                   mouseTracking, keyboardTracking, windowTracking, shotTracking,
                   mouseListeners, keyboardListeners, windowListeners, currentWindow, tickCount, startCount, evlog, pubAtStop,
                   ctrAtStop, sourceErrors, errorsEmitted,
                   harnessVars>>

\* getSources rejects, or yields no source (`throw new Error('No screen source
\* found')`): the catch block runs this.emit('error', error); an EventEmitter
\* with no 'error' listener throws the error, so captureScreenshot rejects and
\* publishWindowData is abandoned at its await
ProviderFail(rec) ==
    /\ rec \in inflight
    /\ inflight' = inflight \ {rec}
    /\ failed' = failed \cup {rec.tick}
    /\ IF screenshotErrorListeners = 0
       THEN UNCHANGED <<published, windowedEvents>>
       ELSE Continue(rec, "")
    /\ UNCHANGED <<now, fine, isRunning, statsInterval, activeTimers, nextFire, eventCounter,
                   mouseTracking, keyboardTracking, windowTracking, shotTracking,
                   mouseListeners, keyboardListeners, windowListeners, currentWindow, tickCount, startCount, evlog, pubAtStop,
                   ctrAtStop, sourceErrors, errorsEmitted,
                   harnessVars>>

ProviderReturns == \E rec \in inflight : ProviderReturn(rec)

ProviderFails == \E rec \in inflight : ProviderFail(rec)

(***************************************************************************)
(* The clock                                                               *)
(***************************************************************************)
Tock ==
    /\ fine < MaxFine
    /\ statsInterval => now < nextFire + MaxJitter
    /\ now' = now + 1
    /\ fine' = fine + 1
    /\ UNCHANGED <<isRunning, statsInterval, activeTimers, nextFire, windowedEvents, eventCounter,
                   inflight, published, failed, mouseTracking, keyboardTracking,
                   windowTracking, shotTracking, mouseListeners, keyboardListeners,
                   windowListeners, currentWindow, tickCount, startCount,
                   evlog, pubAtStop, ctrAtStop, sourceErrors, errorsEmitted,
                   harnessVars>>

Sleep ==
    /\ statsInterval
    /\ now < nextFire
    /\ tickCount < MaxTicks
    /\ now' = nextFire
    /\ fine' = 0
    /\ UNCHANGED <<isRunning, statsInterval, activeTimers, nextFire, windowedEvents, eventCounter,
                   inflight, published, failed, mouseTracking, keyboardTracking,
                   windowTracking, shotTracking, mouseListeners, keyboardListeners,
                   windowListeners, currentWindow, tickCount, startCount,
                   evlog, pubAtStop, ctrAtStop, sourceErrors, errorsEmitted,
                   harnessVars>>

(***************************************************************************)
(* The pipeline                                                            *)
(***************************************************************************)
(***************************************************************************)
(* Conductor workflow (part_004, lines 426-665; state.ts)                  *)
(***************************************************************************)

\* actions in the plan the planner returns
MaxPlan == 3

\* graph.invoke calls
MaxRuns == 2

\* null
Null == <<>>

\* the exit of the graph
END == "__end__"

\* a parameter value: a string or a number; a missing parameter is Null
Str(s) == [str |-> s]

Num(n) == [num |-> n]

\* typeof v === 'string', typeof v === 'number'
IsString(v) == "str" \in DOMAIN v

IsNumber(v) == "num" \in DOMAIN v

\* the ActionCommands a plan is made of (plannerAgent.ts lines 8-25: the names
\* of the schema, every parameter optional): a show_text with and without its
\* text, a wait with a duration and with a negative one, and do_nothing, a
\* name the response agent does not know.  `parameters` is <<object>>, the
\* object a record of the parameters present
ActionCommands ==
    {[actionName |-> "show_text", parameters |-> <<[text |-> Str("hi")]>>],
     [actionName |-> "show_text", parameters |-> <<[durationMs |-> Num(10)]>>],
     [actionName |-> "wait", parameters |-> <<[durationMs |-> Num(10)]>>],
     [actionName |-> "wait", parameters |-> <<[durationMs |-> Num(-1)]>>],
     [actionName |-> "do_nothing", parameters |-> <<[text |-> Str("hi")]>>]}

\* the ActionPlan.actionPlan arrays plannerAgent.createPlan may resolve to
ActionPlans == UNION {[1..n -> ActionCommands] : n \in 0..MaxPlan}

\* params.name of a parameters object, Null when the property is not there
Param(params, name) == IF name \in DOMAIN params THEN params[name] ELSE Null

\* plannerAgent.ts lines 366-401: the errors validatePlan pushes for action i
\* (0-based), in the order it pushes them, for an action with its parameters
ActionErrors(action, i) ==
    LET label == "Action " \o ToString(i + 1) \o ": "
        param(name) == IF action.parameters = Null THEN Null
                       ELSE Param(action.parameters[1], name)
    IN  (IF action.actionName = "" THEN <<label \o "Missing action name">> ELSE <<>>)
        \o (IF action.parameters = Null THEN <<label \o "Missing parameters">> ELSE <<>>)
        \o (IF action.actionName = "show_text" /\ ~IsString(param("text"))
            THEN <<label \o action.actionName \o " requires text parameter">> ELSE <<>>)
        \o (IF /\ action.actionName = "wait"
               /\ \/ ~IsNumber(param("durationMs"))
                  \/ param("durationMs").num < 0
            THEN <<label \o "wait requires positive durationMs">> ELSE <<>>)

\* lines 380 and 388: reading a parameter of an action without parameters
\* throws a TypeError; its message for the first such action, Null when
\* validatePlan does not throw
ValidationError(plan) ==
    LET throws(i) == plan[i].parameters = Null /\ plan[i].actionName \in {"show_text", "wait"}
    IN  IF \A i \in 1..Len(plan) : ~throws(i) THEN Null
        ELSE LET i == CHOOSE i \in 1..Len(plan) :
                          throws(i) /\ \A j \in 1..(i - 1) : ~throws(j)
             IN  <<"Cannot read properties of undefined (reading '"
                       \o (IF plan[i].actionName = "show_text" THEN "text" ELSE "durationMs")
                       \o "')">>

RECURSIVE PlanErrors(_, _)
PlanErrors(plan, n) ==
    IF n = 0 THEN <<>> ELSE PlanErrors(plan, n - 1) \o ActionErrors(plan[n], n - 1)

\* plannerAgent.validatePlan, lines 359-410, for a plan it does not throw on
validatePlan(plan) ==
    LET errors == (IF Len(plan) = 0 THEN <<"Plan is empty">> ELSE <<>>)
                      \o PlanErrors(plan, Len(plan))
    IN  [valid |-> errors = <<>>, errors |-> errors]

\* Array.prototype.join(", ")
RECURSIVE JoinErrors(_)
JoinErrors(errors) ==
    IF Len(errors) = 0 THEN ""
    ELSE IF Len(errors) = 1 THEN errors[1]
    ELSE errors[1] \o ", " \o JoinErrors(Tail(errors))

\* responseAgent.ts lines 82-316: the parameters each action requires as
\* strings and as numbers, and the message it throws without them
RequiredStrings(actionName) ==
    CASE actionName \in {"show_text", "speak_text", "show_tooltip"} -> {"text"}
      [] actionName = "play_sound" -> {"soundFile"}
      [] actionName = "animate_clippy" -> {"animation"}
      [] actionName = "change_cursor" -> {"cursorType"}
      [] actionName = "show_notification" -> {"title", "message"}
      [] OTHER -> {}

RequiredNumbers(actionName) ==
    CASE actionName = "move_cursor" -> {"x", "y"}
      [] actionName = "wait" -> {"durationMs"}
      [] actionName = "highlight_element" -> {"x", "y", "width", "height"}
      [] actionName = "shake_window" -> {"intensity", "durationMs"}
      [] OTHER -> {}

RequirementText(actionName) ==
    CASE actionName = "move_cursor" -> "move_cursor requires x and y coordinates"
      [] actionName = "show_text" -> "show_text requires text parameter"
      [] actionName = "play_sound" -> "play_sound requires soundFile parameter"
      [] actionName = "wait" -> "wait requires positive durationMs parameter"
      [] actionName = "speak_text" -> "speak_text requires text parameter"
      [] actionName = "animate_clippy" -> "animate_clippy requires animation parameter"
      [] actionName = "show_tooltip" -> "show_tooltip requires text parameter"
      [] actionName = "highlight_element" ->
             "highlight_element requires x, y, width, height parameters"
      [] actionName = "shake_window" ->
             "shake_window requires intensity and durationMs parameters"
      [] actionName = "change_cursor" -> "change_cursor requires cursorType parameter"
      [] actionName = "show_notification" ->
             "show_notification requires title and message parameters"

KnownActions ==
    {"move_cursor", "show_text", "play_sound", "wait", "speak_text", "animate_clippy",
     "show_tooltip", "highlight_element", "shake_window", "change_cursor",
     "show_notification"}

\* the first property the action destructures from its parameters
FirstParameter(actionName) ==
    CASE actionName \in {"move_cursor", "highlight_element"} -> "x"
      [] actionName \in {"show_text", "speak_text", "show_tooltip"} -> "text"
      [] actionName = "play_sound" -> "soundFile"
      [] actionName = "wait" -> "durationMs"
      [] actionName = "animate_clippy" -> "animation"
      [] actionName = "shake_window" -> "intensity"
      [] actionName = "change_cursor" -> "cursorType"
      [] actionName = "show_notification" -> "title"

\* the parameters an action requires are there with their types
ParametersAccepted(actionName, params) ==
    /\ \A name \in RequiredStrings(actionName) : IsString(Param(params, name))
    /\ \A name \in RequiredNumbers(actionName) : IsNumber(Param(params, name))
    /\ actionName = "wait" => Param(params, "durationMs").num >= 0

FailedResult(action, message) ==
    [actionExecuted |-> action.actionName, status |-> "failed", error |-> message]

\* responseAgent.ts lines 22-75: ResponseAgent.executeAction.  What an action
\* throws is caught and reported as a failed result, never thrown
ResponseResult(action, isActive) ==
    IF ~isActive THEN FailedResult(action, "Response agent is not active")
    ELSE IF action.actionName \notin KnownActions
    THEN FailedResult(action, "Unknown action: " \o action.actionName)
    ELSE IF action.parameters = Null
    THEN FailedResult(action, "Cannot destructure property '"
                                  \o FirstParameter(action.actionName)
                                  \o "' of 'params' as it is undefined.")
    ELSE IF ~ParametersAccepted(action.actionName, action.parameters[1])
    THEN FailedResult(action, RequirementText(action.actionName))
    ELSE [actionExecuted |-> action.actionName, status |-> "completed"]

\* the observations a run is started with: null, the object {} and an
\* ObservationData (state.ts lines 68-76); an object is << its properties >>
Observations ==
    {Null, <<{}>>,
     <<{"windowStartTime", "windowEndTime", "durationMs", "windowEvents", "mouseData",
        "keyboardEvents"}>>}

\* lines 652-662: the state runWithObservationData hands to graph.invoke
InitialState(observationData) ==
    [observationData |-> observationData, intentAnalysis |-> Null,
     personalityState |-> Null, actionPlan |-> Null, actionResults |-> <<>>,
     currentActionIndex |-> 0, lastError |-> Null]

\* state.ts: every channel keeps the last value written, except actionResults,
\* whose reducer concatenates
ApplyUpdate(state, update) ==
    [k \in DOMAIN state |->
        IF k \notin DOMAIN update THEN state[k]
        ELSE IF k = "actionResults" THEN state[k] \o update[k]
        ELSE update[k]]

\* the call with the observation of the run as worldModel
PlannerCall_WithWorldModel(state) ==
    [agent |-> "plannerAgent", worldModel |-> state.observationData,
     pending |-> IF "windowEvents" \in state.observationData[1]
                 THEN "request" ELSE "nothing"]

\* lines 503-506: the call createPlan makes, plannerAgent.createPlan(
\* state.intentAnalysis, state.personalityState.clipperMood).  The third
\* parameter, worldModel, gets no argument: it is undefined (Null).
\* gatherClientInformation first calls shouldGatherInformation, which reads
\* worldModel.windowEvents (plannerAgent.ts line 130): a TypeError on an
\* undefined worldModel, so the call leaves nothing pending
PlannerCall(state) ==
    [agent |-> "plannerAgent", worldModel |-> Null, pending |-> "nothing"]

\* plannerAgent.ts lines 202-237, PlannerAgent.createPlan: the actionPlan array
\* it resolves to when the model answers `response`.  The TypeError of line
\* 130 is caught in lines 231-236, where an empty plan is returned and the
\* model is not asked
PlannerAgent_createPlan(call, response) ==
    IF call.pending = "nothing" THEN <<>> ELSE response

\* the command executeAction hands to the response agent, if it reaches that call
HandsOver(state) ==
    state.actionPlan # Null /\ state.currentActionIndex < Len(state.actionPlan[1])

\* the agent call a node makes on `state` and then awaits (lines 437, 469, 503
\* and 551), agent "none" when the node throws before it, and what the call
\* leaves pending when it returns its promise: "nothing", a "timer" or a
\* "request" to a language model.
\*  - intentAnalyzer.analyzeIntent (intentAnalysis.ts lines 60-112) builds its
\*    prompt from mouseData, keyboardEvents and windowEvents of the observation
\*    (lines 215-241) and throws into its catch when one is missing;
\*  - personalityAgent.updatePersonality (personalityAgent.ts lines 53-92)
\*    builds its prompt from the last entry of moodHistory (line 114), which is
\*    empty: only a model's answer adds to it (line 67), and setMood has no
\*    caller.  It throws into its catch on every call;
\*  - ResponseAgent.executeAction (responseAgent.ts lines 22-75) reads isActive
\*    when it is called and fails at once or awaits the delay of the action
AgentCall(node, state, isActive) ==
    CASE node = "analyzeIntent" ->
             IF state.observationData = Null THEN [agent |-> "none", pending |-> "nothing"]
             ELSE [agent |-> "intentAnalyzer",
                   pending |-> IF {"mouseData", "keyboardEvents", "windowEvents"}
                                      \subseteq state.observationData[1]
                               THEN "request" ELSE "nothing"]
      [] node = "updatePersonality" ->
             IF state.intentAnalysis = Null THEN [agent |-> "none", pending |-> "nothing"]
             ELSE [agent |-> "personalityAgent", pending |-> "nothing"]
      [] node = "createPlan" ->
             IF state.intentAnalysis = Null \/ state.personalityState = Null
             THEN [agent |-> "none", pending |-> "nothing"]
             ELSE PlannerCall(state)
      [] node = "executeAction" ->
             IF ~HandsOver(state) THEN [agent |-> "none", pending |-> "nothing"]
             ELSE LET result == ResponseResult(
                                    state.actionPlan[1][state.currentActionIndex + 1],
                                    isActive)
                  IN  [agent |-> "responseAgent", index |-> state.currentActionIndex,
                       result |-> result,
                       pending |-> IF result.status = "failed" THEN "nothing" ELSE "timer"]

\* what the awaited call may settle with.  intentAnalyzer.analyzeIntent
\* resolves to the answer of the model or to the fallback of its catch (lines
\* 98-110), personalityAgent.updatePersonality to << currentMood >>, which is
\* "Helpful" (line 36) as long as no answer of a model has changed it
Replies(call) ==
    CASE call.agent = "none" -> {Null}
      [] call.agent = "intentAnalyzer" ->
             IF call.pending = "nothing" THEN {<<"fallback analysis">>}
             ELSE {<<"analysis">>, <<"fallback analysis">>}
      [] call.agent = "personalityAgent" -> {<<"Helpful">>}
      [] call.agent = "plannerAgent" ->
             {PlannerAgent_createPlan(call, response) : response \in ActionPlans}
      [] call.agent = "responseAgent" -> {call.result}

\* lines 426-453: the update the node returns when its call resolved to
\* intentAnalysis
analyzeIntent(state, intentAnalysis) ==
    IF state.observationData = Null
    THEN [lastError |-> <<"No observation data available for intent analysis">>]
    ELSE [intentAnalysis |-> intentAnalysis, lastError |-> Null]

\* lines 458-485
updatePersonality(state, personalityState) ==
    IF state.intentAnalysis = Null
    THEN [lastError |-> <<"No intent analysis available for personality update">>]
    ELSE [personalityState |-> personalityState, lastError |-> Null]

\* lines 490-527: the update the node returns when the planner resolved to
\* { actionPlan }
createPlan(state, actionPlan) ==
    IF state.intentAnalysis = Null \/ state.personalityState = Null
    THEN [lastError |-> <<"Missing intent analysis or personality state for planning">>]
    ELSE IF ValidationError(actionPlan) # Null
    THEN [lastError |-> ValidationError(actionPlan)]
    ELSE IF ~validatePlan(actionPlan).valid
    THEN [lastError |-> <<"Invalid action plan: "
                              \o JoinErrors(validatePlan(actionPlan).errors)>>]
    ELSE [actionPlan |-> <<actionPlan>>, currentActionIndex |-> 0, lastError |-> Null]

\* lines 532-566: the update the node returns when the response agent resolved
\* to result
executeAction(state, result) ==
    IF state.actionPlan = Null
    THEN [lastError |-> <<"No action plan available for execution">>]
    ELSE IF state.currentActionIndex >= Len(state.actionPlan[1])
    THEN [lastError |-> <<"Action index out of bounds">>]
    ELSE [actionResults |-> <<result>>,
          currentActionIndex |-> state.currentActionIndex + 1,
          lastError |-> Null]

\* lines 571-599
routeFlow(state) ==
    IF state.lastError # Null THEN END
    ELSE IF state.intentAnalysis # Null /\ state.personalityState = Null
    THEN "updatePersonality"
    ELSE IF state.personalityState # Null /\ state.actionPlan = Null
    THEN "createPlan"
    ELSE IF state.actionPlan # Null /\ state.currentActionIndex < Len(state.actionPlan[1])
    THEN "executeAction"
    ELSE END

\* the runs started so far
Runs == 1..Len(graphState)

\* lines 646-665: graph.invoke(initialState); line 630: START -> analyzeIntent.
\* Every call is a run of its own with a state of its own; index.ts lines
\* 101-104 start one per window without awaiting the one before
Invoke(observationData) ==
    /\ Len(graphState) < MaxRuns
    /\ graphState' = Append(graphState, InitialState(observationData))
    /\ nextNode' = Append(nextNode, "analyzeIntent")
    /\ nodeAwaits' = Append(nodeAwaits, Null)
    /\ nodesRun' = Append(nodesRun, <<>>)
    /\ UNCHANGED <<executedActions, responseActive, pipelineVars, clickVars, samplerVars,
                   summaryVars, keyboardVars, windowVars, historyVars, movementVars>>

\* the graph calls the next node of run r; the node runs up to the agent call
\* it awaits
NodeCall(r) ==
    /\ r \in Runs
    /\ nextNode[r] # END
    /\ nodeAwaits[r] = Null
    /\ LET call == AgentCall(nextNode[r], graphState[r], responseActive)
       IN  /\ nodeAwaits' = [nodeAwaits EXCEPT ![r] = <<call>>]
           /\ executedActions' = IF call.agent = "responseAgent"
                                 THEN Append(executedActions, [run |-> r, index |-> call.index])
                                 ELSE executedActions
    /\ nodesRun' = [nodesRun EXCEPT ![r] = Append(@, nextNode[r])]
    /\ UNCHANGED <<graphState, nextNode, responseActive, pipelineVars, clickVars, samplerVars,
                   summaryVars, keyboardVars, windowVars, historyVars, movementVars>>

\* the call the node of run r awaits settles: the node (lines 623-626 name
\* the function of each) returns its update, the graph applies it and routeFlow
\* picks the next node (lines 633-636)
NodeSettle(r) ==
    /\ r \in Runs
    /\ nodeAwaits[r] # Null
    /\ \E reply \in Replies(nodeAwaits[r][1]) :
           graphState' = [graphState EXCEPT ![r] = ApplyUpdate(@,
               CASE nextNode[r] = "analyzeIntent" -> analyzeIntent(@, reply)
                 [] nextNode[r] = "updatePersonality" -> updatePersonality(@, reply)
                 [] nextNode[r] = "createPlan" -> createPlan(@, reply)
                 [] nextNode[r] = "executeAction" -> executeAction(@, reply))]
    /\ nextNode' = [nextNode EXCEPT ![r] = routeFlow(graphState'[r])]
    /\ nodeAwaits' = [nodeAwaits EXCEPT ![r] = Null]
    /\ UNCHANGED <<nodesRun, executedActions, responseActive, pipelineVars, clickVars,
                   samplerVars, summaryVars, keyboardVars, windowVars, historyVars,
                   movementVars>>

\* the node of run r has nothing pending outside the process, no timer and no
\* request: it settles once the microtasks have run
SettlesByItself(r) ==
    /\ r \in Runs
    /\ nodeAwaits[r] # Null
    /\ nodeAwaits[r][1].pending = "nothing"

\* the promise of a node that awaits nothing or a timer settles
LocalSettle(r) ==
    /\ r \in Runs
    /\ nodeAwaits[r] # Null
    /\ nodeAwaits[r][1].pending # "request"
    /\ NodeSettle(r)

\* the reply of a language model arrives, or the request fails
AgentSettle(r) ==
    /\ r \in Runs
    /\ nodeAwaits[r] # Null
    /\ nodeAwaits[r][1].pending = "request"
    /\ NodeSettle(r)

\* responseAgent.ts lines 330-333: ResponseAgent.setActive
SetActive(active) ==
    /\ responseActive' = active
    /\ UNCHANGED <<graphState, nextNode, nodeAwaits, nodesRun, executedActions, pipelineVars,
                   clickVars, samplerVars, summaryVars, keyboardVars, windowVars,
                   historyVars, movementVars>>

ConductorNext ==
    \/ \E observationData \in Observations : Invoke(observationData)
    \/ \E r \in 1..MaxRuns : NodeCall(r)
    \/ \E r \in 1..MaxRuns : NodeSettle(r)
    \/ \E active \in BOOLEAN : SetActive(active)

(***************************************************************************)
(* Window movement (movement.ts, lines 4-131; ipc.ts, lines 56-98;         *)
(* index.ts, lines 139-168)                                                *)
(***************************************************************************)

\* calls of moveLinear, moveJerk and moveCursor
MaxMoves == 2

\* iterations of one loop of moveJerk or moveTo
MaxJerkSteps == 2

\* calls of moveTo
MaxMoveTo == 1

\* line 4
STEP_RANGE == <<25, 100>>

\* movement.ts lines 52-53
velocity == 500
jork == 30

\* ipc.ts line 56
moveToVelocity == 1000

\* line 16, Math.round(Math.random() * STEP_RANGE[1]) + STEP_RANGE[0]: the
\* least and the greatest number of steps
StepCounts == {STEP_RANGE[1], STEP_RANGE[2] + STEP_RANGE[1]}

\* lines 6-12 and index.ts lines 148-152: the targets randomLocation returns
MoveTargets == {[x |-> tx, y |-> ty] : tx \in {0, 10, 60}, ty \in {0, 10, 60}}

\* the targets of the moveTo calls
MoveToTargets == {[x |-> 0, y |-> 0], [x |-> 30, y |-> 30]}

\* Date.now() - then, in milliseconds: at the call, and after a timeout of
\* 1000 / 60 ms
CallDeltas == {0, 1}
TimerDeltas == {16, 17}

\* the four Math.random() values of one iteration, in tenths, in the order
\* the code draws them; Null where no jerk is applied
JerkDraws == {<<9, 9, 9, 9>>, <<0, 5, 9, 1>>}

\* screen.getPrimaryDisplay().scaleFactor
ScaleFactors == {1, 2}

\* Math.sign
Sign(v) == IF v > 0 THEN 1 ELSE IF v < 0 THEN -1 ELSE 0

\* Math.floor(x): the greatest whole number that is at most x
MathFloor(x) ==
    IF x.man = <<>> THEN 0
    ELSE IF x.exp >= 0 THEN (IF x.neg THEN -1 ELSE 1) * NatToInt(NatShl(x.man, x.exp))
    ELSE IF x.neg
         THEN -(NatToInt(NatShr(x.man, -x.exp))
                    + IF NatLowZero(x.man, -x.exp) THEN 0 ELSE 1)
         ELSE NatToInt(NatShr(x.man, -x.exp))

\* Math.round(current + (end - start) / steps): the nearest integer, a half
\* rounded up
SteppedCoordinate(current, end, start, steps) ==
    (2 * (current * steps + (end - start)) + steps) \div (2 * steps)

\* lines 31-36: the test that ends the movement
MoveEnds(newX, newY) ==
    LET xDir == Sign(moveTarget.x - moveOrigin.x)
        yDir == Sign(moveTarget.y - moveOrigin.y)
    IN  \/ xDir = 1 /\ newX >= moveTarget.x
        \/ xDir = -1 /\ newX <= moveTarget.x
        \/ yDir = 1 /\ newY >= moveTarget.y
        \/ yDir = -1 /\ newY <= moveTarget.y

\* movement.ts lines 69-70, ipc.ts lines 80-81: the whole pixels of
\*   Math.floor(velocity * (delta / 1000) * Math.sign(end - c))
\* for dir = Math.sign(end - c)
Advance(speed, delta, dir) ==
    MathFloor(F64Mul(F64Mul(F64(speed), F64Ratio(delta, 1000)), F64(dir)))

\* movement.ts lines 73-74, ipc.ts lines 84-85: the whole pixels of
\*   Math.floor(Math.random() * jork) * Math.sign(Math.random() - 0.5)
\* for the two Math.random() values draw[1] / 10 and draw[2] / 10
JerkOffset(draw) ==
    LET side == F64Sub(F64Ratio(draw[2], 10), F64Ratio(1, 2))
    IN  MathFloor(F64Scale(F64Ratio(draw[1], 10), jork))
            * (IF side.man = <<>> THEN 0 ELSE IF side.neg THEN -1 ELSE 1)

\* Advance and JerkOffset on the inputs of the model, computed once
Advances ==
    [speed \in {velocity, moveToVelocity}, delta \in CallDeltas \cup TimerDeltas,
     dir \in {-1, 0, 1} |-> Advance(speed, delta, dir)]
JerkOffsets ==
    [draw \in UNION {{<<d[1], d[2]>>, <<d[3], d[4]>>} : d \in JerkDraws} |-> JerkOffset(draw)]

\* movement.ts lines 69-74, ipc.ts lines 80-86: one coordinate after the two
\* additions; draw is Null where no jerk is applied
JerkedCoordinate(c, end, speed, delta, draw) ==
    c + Advances[speed, delta, Sign(end - c)] + IF draw = Null THEN 0 ELSE JerkOffsets[draw]

\* movement.ts lines 62-74, ipc.ts lines 73-86: the loop test and the position
\* of one iteration; Null when the loop ends.  Math.sqrt is monotone and
\* Math.sqrt(100) is 10, so distance(pos, end) > 10 exactly when the sum of
\* the squares is above 100
ChasePosition(pos, end, speed, delta, draws) ==
    IF (pos.x - end.x) * (pos.x - end.x) + (pos.y - end.y) * (pos.y - end.y) > 10 * 10
    THEN <<[x |-> JerkedCoordinate(pos.x, end.x, speed, delta,
                                   IF draws = Null THEN Null ELSE <<draws[1], draws[2]>>),
            y |-> JerkedCoordinate(pos.y, end.y, speed, delta,
                                   IF draws = Null THEN Null ELSE <<draws[3], draws[4]>>)]>>
    ELSE Null

\* index.ts lines 141-161: the loop of the main process awaits each movement
\* before it picks the next, so one of moveLinear, moveJerk and moveCursor is
\* under way at a time.  No code of src/ calls moveTo; it is called here as
\* that loop calls the other three, when no movement is under way
NoMovement ==
    /\ ~moveIntervalId
    /\ ~cursorIntervalId
    /\ ~jerkTimeout
    /\ \A i \in 1..Len(moveToCalls) : moveToCalls[i].awaits = "returned"

\* lines 14-25: moveLinear up to setInterval
MoveLinear(end, steps) ==
    /\ NoMovement
    /\ moveCalls < MaxMoves
    /\ moveCalls' = moveCalls + 1
    /\ moveTarget' = end
    /\ moveSteps' = steps
    /\ moveOrigin' = stickyPosition
    /\ moveIntervalId' = TRUE
    /\ moveResolved' = FALSE
    /\ UNCHANGED <<stickyPosition, cursorIntervalId, jerkTimeout, jerkSteps, cursorPosition,
                   moveToCalls, pipelineVars, clickVars, samplerVars, summaryVars,
                   keyboardVars, windowVars, historyVars, conductorVars>>

\* lines 25-47: the interval callback
MoveTick ==
    /\ moveIntervalId
    /\ LET newX == SteppedCoordinate(stickyPosition.x, moveTarget.x, moveOrigin.x, moveSteps)
           newY == SteppedCoordinate(stickyPosition.y, moveTarget.y, moveOrigin.y, moveSteps)
       IN  IF MoveEnds(newX, newY)
           THEN /\ moveIntervalId' = FALSE
                /\ moveResolved' = TRUE
                /\ UNCHANGED stickyPosition
           ELSE /\ stickyPosition' = [x |-> newX, y |-> newY]
                /\ UNCHANGED <<moveIntervalId, moveResolved>>
    /\ UNCHANGED <<moveTarget, moveSteps, moveOrigin, moveCalls, cursorIntervalId, jerkTimeout,
                   jerkSteps, cursorPosition, moveToCalls, pipelineVars, clickVars,
                   samplerVars, summaryVars, keyboardVars, windowVars, historyVars,
                   conductorVars>>

\* lines 51-93: moveJerk up to its first await, or to its return when the
\* window is within reach of the target.  setBounds throws only for a
\* destroyed window, and the sticky window lives as long as the loop of
\* index.ts
MoveJerk(end, delta, draws) ==
    /\ NoMovement
    /\ moveCalls < MaxMoves
    /\ moveCalls' = moveCalls + 1
    /\ moveTarget' = end
    /\ LET next == ChasePosition(stickyPosition, end, velocity, delta, draws)
       IN  IF next = Null
           THEN /\ moveResolved' = TRUE
                /\ UNCHANGED <<stickyPosition, jerkTimeout, jerkSteps>>
           ELSE /\ stickyPosition' = next[1]
                /\ jerkTimeout' = TRUE
                /\ jerkSteps' = 1
                /\ moveResolved' = FALSE
    /\ UNCHANGED <<moveSteps, moveOrigin, moveIntervalId, cursorIntervalId, cursorPosition,
                   moveToCalls, pipelineVars, clickVars, samplerVars, summaryVars,
                   keyboardVars, windowVars, historyVars, conductorVars>>

\* lines 91, 63-92: the timeout of moveJerk fires and the loop goes on
JerkTimer(delta, draws) ==
    /\ jerkTimeout
    /\ LET next == ChasePosition(stickyPosition, moveTarget, velocity, delta, draws)
       IN  IF next = Null
           THEN /\ jerkTimeout' = FALSE
                /\ moveResolved' = TRUE
                /\ UNCHANGED <<stickyPosition, jerkSteps>>
           ELSE /\ jerkSteps < MaxJerkSteps
                /\ stickyPosition' = next[1]
                /\ jerkSteps' = jerkSteps + 1
                /\ UNCHANGED <<jerkTimeout, moveResolved>>
    /\ UNCHANGED <<moveTarget, moveSteps, moveOrigin, moveIntervalId, moveCalls,
                   cursorIntervalId, cursorPosition, moveToCalls, pipelineVars, clickVars,
                   samplerVars, summaryVars, keyboardVars, windowVars, historyVars,
                   conductorVars>>

\* lines 95-106: moveCursor up to setInterval
MoveCursor(end, steps) ==
    /\ NoMovement
    /\ moveCalls < MaxMoves
    /\ moveCalls' = moveCalls + 1
    /\ moveTarget' = end
    /\ moveSteps' = steps
    /\ moveOrigin' = stickyPosition
    /\ cursorIntervalId' = TRUE
    /\ moveResolved' = FALSE
    /\ UNCHANGED <<stickyPosition, moveIntervalId, jerkTimeout, jerkSteps, cursorPosition,
                   moveToCalls, pipelineVars, clickVars, samplerVars, summaryVars,
                   keyboardVars, windowVars, historyVars, conductorVars>>

\* lines 106-129: the interval callback of moveCursor; the point is handed to
\* mouse.setPosition, which is not awaited
CursorTick(scale) ==
    /\ cursorIntervalId
    /\ LET newX == SteppedCoordinate(stickyPosition.x, moveTarget.x, moveOrigin.x, moveSteps)
           newY == SteppedCoordinate(stickyPosition.y, moveTarget.y, moveOrigin.y, moveSteps)
       IN  IF MoveEnds(newX, newY)
           THEN /\ cursorIntervalId' = FALSE
                /\ moveResolved' = TRUE
                /\ UNCHANGED <<stickyPosition, cursorPosition>>
           ELSE /\ stickyPosition' = [x |-> newX, y |-> newY]
                /\ cursorPosition' = <<[x |-> (newX + 100) * scale, y |-> (newY + 100) * scale]>>
                /\ UNCHANGED <<cursorIntervalId, moveResolved>>
    /\ UNCHANGED <<moveTarget, moveSteps, moveOrigin, moveCalls, moveIntervalId, jerkTimeout,
                   jerkSteps, moveToCalls, pipelineVars, clickVars, samplerVars, summaryVars,
                   keyboardVars, windowVars, historyVars, conductorVars>>

\* ipc.ts lines 73-96: the loop of call i of moveTo from its test to its next
\* await; near is the test of line 88 on screen.getCursorScreenPoint()
MoveToLoop(calls, i, delta, draws, near) ==
    LET next == ChasePosition(stickyPosition, calls[i].end, moveToVelocity, delta,
                              IF calls[i].type = "jerk" THEN draws ELSE Null)
    IN  IF next = Null
        THEN /\ moveToCalls' = [calls EXCEPT ![i].awaits = "returned"]
             /\ UNCHANGED <<stickyPosition, cursorPosition>>
        ELSE /\ calls[i].steps < MaxJerkSteps
             /\ stickyPosition' = next[1]
             /\ cursorPosition' = IF near THEN <<[x |-> next[1].x + 64, y |-> next[1].y + 64]>>
                                  ELSE cursorPosition
             /\ moveToCalls' = [calls EXCEPT ![i].awaits = IF near THEN "mouse" ELSE "timer",
                                             ![i].steps = @ + 1]

\* ipc.ts lines 62-98: moveTo up to its first await or its return
MoveTo(end, type, delta, draws, near) ==
    /\ NoMovement
    /\ Len(moveToCalls) < MaxMoveTo
    /\ MoveToLoop(Append(moveToCalls, [end |-> end, type |-> type, awaits |-> "returned",
                                       steps |-> 0]),
                  Len(moveToCalls) + 1, delta, draws, near)
    /\ UNCHANGED <<moveTarget, moveSteps, moveOrigin, moveIntervalId, moveResolved, moveCalls,
                   cursorIntervalId, jerkTimeout, jerkSteps, pipelineVars, clickVars,
                   samplerVars, summaryVars, keyboardVars, windowVars, historyVars,
                   conductorVars>>

\* ipc.ts lines 89, 91-95: mouse.setPosition settles and call i sets its timeout
MoveToMouseSet(i) ==
    /\ i \in 1..Len(moveToCalls)
    /\ moveToCalls[i].awaits = "mouse"
    /\ moveToCalls' = [moveToCalls EXCEPT ![i].awaits = "timer"]
    /\ UNCHANGED <<stickyPosition, cursorPosition, moveTarget, moveSteps, moveOrigin,
                   moveIntervalId, moveResolved, moveCalls, cursorIntervalId, jerkTimeout,
                   jerkSteps, pipelineVars, clickVars, samplerVars, summaryVars,
                   keyboardVars, windowVars, historyVars, conductorVars>>

\* ipc.ts lines 95, 73-96: the timeout of call i fires and its loop goes on
MoveToTimer(i, delta, draws, near) ==
    /\ i \in 1..Len(moveToCalls)
    /\ moveToCalls[i].awaits = "timer"
    /\ MoveToLoop(moveToCalls, i, delta, draws, near)
    /\ UNCHANGED <<moveTarget, moveSteps, moveOrigin, moveIntervalId, moveResolved, moveCalls,
                   cursorIntervalId, jerkTimeout, jerkSteps, pipelineVars, clickVars,
                   samplerVars, summaryVars, keyboardVars, windowVars, historyVars,
                   conductorVars>>

JerkTimers == \E delta \in TimerDeltas, draws \in JerkDraws : JerkTimer(delta, draws)

CursorTicks == \E scale \in ScaleFactors : CursorTick(scale)

MoveToTimers ==
    \E i \in 1..MaxMoveTo, delta \in TimerDeltas, draws \in JerkDraws, near \in BOOLEAN :
        MoveToTimer(i, delta, draws, near)

MoveNext ==
    \/ \E end \in MoveTargets, steps \in StepCounts : MoveLinear(end, steps)
    \/ MoveTick
    \/ \E end \in MoveTargets, delta \in CallDeltas, draws \in JerkDraws :
           MoveJerk(end, delta, draws)
    \/ JerkTimers
    \/ \E end \in MoveTargets, steps \in StepCounts : MoveCursor(end, steps)
    \/ CursorTicks
    \/ \E end \in MoveToTargets, type \in {"jerk", "linear"}, delta \in CallDeltas,
          draws \in JerkDraws, near \in BOOLEAN : MoveTo(end, type, delta, draws, near)
    \/ \E i \in 1..MaxMoveTo : MoveToMouseSet(i)
    \/ MoveToTimers

InitOutsideHistory ==
    /\ now = 0
    /\ fine = 0
    /\ isRunning = FALSE
    /\ statsInterval = FALSE
    /\ activeTimers = 0
    /\ nextFire = 0
    /\ windowedEvents = <<>>
    /\ eventCounter = 0
    /\ inflight = {}
    /\ published = <<>>
    /\ failed = {}
    /\ mouseTracking = FALSE
    /\ keyboardTracking = FALSE
    /\ windowTracking = FALSE
    /\ shotTracking = FALSE
    /\ mouseListeners = 0
    /\ keyboardListeners = 0
    /\ windowListeners = 0
    /\ currentWindow = NoWindow
    /\ tickCount = 0
    /\ startCount = 0
    /\ evlog = <<>>
    /\ pubAtStop = 0
    /\ ctrAtStop = 0
    /\ sourceErrors = 0
    /\ errorsEmitted = 0
    /\ clickIn = <<>>
    /\ clickOut = <<>>
    /\ clickData = processEventsForWindow(<<>>, 0, WINDOW_INTERVAL_MS)
    /\ sNow = Epoch
    /\ sTracking = FALSE
    /\ pointer = [x |-> -10, y |-> 0]
    /\ lastPosition = <<>>
    /\ lastMoveTime = 0
    /\ lastScrollTime = 0
    /\ pendingScrollDelta = 0
    /\ samples = <<>>
    /\ sampleData = processEventsForWindow(<<>>, Epoch, Epoch + WINDOW_INTERVAL_MS)
    /\ rawMoves = 0
    /\ rawWheels = 0
    /\ rawRotation = 0
    /\ burst = TRUE
    /\ sSessions = 0
    /\ sessionMoves = 0
    /\ sumIn = <<>>
    /\ sumData = processEventsForWindow(<<>>, 0, WINDOW_INTERVAL_MS)
    /\ sumOwn = [kind \in {"move", "scroll", "click"} |->
                    processEventsForWindow(<<>>, 0, WINDOW_INTERVAL_MS)]
    /\ kTracking = FALSE
    /\ keyStates = {}
    /\ keyEvents = <<>>
    /\ lastKeyEvent = [k \in KeyCodes |-> "none"]
    /\ wTracking = FALSE
    /\ pollInterval = FALSE
    /\ wCurrent = NoWindow
    /\ pollsInFlight = 0
    /\ windowEmitted = <<>>
    /\ windowErrors = 0
    /\ wSession = 0
    /\ pollsStarted = 0
    /\ graphState = <<>>
    /\ nextNode = <<>>
    /\ nodeAwaits = <<>>
    /\ nodesRun = <<>>
    /\ executedActions = <<>>
    /\ responseActive = TRUE
    /\ stickyPosition = [x |-> 0, y |-> 0]
    /\ moveTarget = [x |-> 0, y |-> 0]
    /\ moveSteps = STEP_RANGE[1]
    /\ moveOrigin = [x |-> 0, y |-> 0]
    /\ moveIntervalId = FALSE
    /\ moveResolved = FALSE
    /\ moveCalls = 0
    /\ cursorIntervalId = FALSE
    /\ jerkTimeout = FALSE
    /\ jerkSteps = 0
    /\ cursorPosition = Null
    /\ moveToCalls = <<>>

Init ==
    /\ InitOutsideHistory
    /\ storedEvents = <<>>
    /\ addEventCalls = 0
    /\ historySteps = 0

Next ==
    \/ \E f \in StartFailures : Start(f)
    \/ Stop
    \/ \E in \in MouseDownInputs : MouseDown(in)
    \/ \E key \in KeyDownInputs : KeyDown(key)
    \/ \E info \in ActiveWindows : WindowPoll(info)
    \/ WindowPollFail
    \/ Tick
    \/ ProviderReturns
    \/ ProviderFails
    \/ Tock
    \/ Sleep

Spec == Init /\ [][Next]_vars


\* the code's own steps are scheduled fairly: a due timer callback runs and
\* time passes; the screenshot provider is an external party and is not
\* obliged to answer
FairSpec == Spec /\ WF_vars(Tick) /\ WF_vars(Sleep)

(***************************************************************************)
(* The lifecycle: the manager started, stopped and started again, with the *)
(* handlers' events and the ticks in between; the clock moves from one     *)
(* timer instant to the next and every capture succeeds.                   *)
(***************************************************************************)
Restart(failAt) == StartWithin(failAt, MaxCycles)

LifecycleNext ==
    \/ \E f \in StartFailures : Restart(f)
    \/ Stop
    \/ \E in \in MouseDownInputs : MouseDown(in)
    \/ \E key \in KeyDownInputs : KeyDown(key)
    \/ \E info \in ActiveWindows : WindowPoll(info)
    \/ Tick
    \/ ProviderReturns
    \/ Sleep

LifecycleSpec == Init /\ [][LifecycleNext]_vars

(***************************************************************************)
(* The clustering harness: mouse events arrive in timestamp order and the  *)
(* clusterer is applied to what has arrived                                *)
(***************************************************************************)
ClickArrivals ==
    {MouseClickEvent(p.x, p.y, b, t) : p \in ClickPositions, b \in ClickButtons, t \in ClickTimes}
    \cup {MouseMoveEvent(6, 5, t) : t \in ClickTimes}

ClickArrive(event) ==
    /\ Len(clickIn) < MaxClicks
    /\ Len(clickIn) > 0 => clickIn[Len(clickIn)].timestamp <= event.timestamp
    /\ clickIn' = Append(clickIn, ActivityEvent(Len(clickIn) + 1, "mouse", event))
    /\ clickOut' = aggregateMouseClicks(clickIn')
    /\ clickData' = processEventsForWindow(clickIn', 0, WINDOW_INTERVAL_MS)
    /\ UNCHANGED <<pipelineVars, samplerVars, summaryVars, keyboardVars, windowVars, standaloneVars>>

ClickNext == \E event \in ClickArrivals : ClickArrive(event)

ClickSpec == Init /\ [][ClickNext]_vars

(***************************************************************************)
(* The sampler harness: one MouseHandler fed raw mousemove and wheel       *)
(* events by uiohook, each some milliseconds after the previous one.       *)
(* uiohook delivers events between start() and stop().  Besides MaxRaw     *)
(* events in any order and spacing, the harness follows one burst of       *)
(* BurstMoves raw moves 1 ms apart.  (MouseHandler.events, the handler's   *)
(* own copy of what it emitted, is not kept.)                              *)
(***************************************************************************)
\* Math.sqrt of a perfect square
Sqrt(n) == CHOOSE r \in 0..n : r * r = n

\* Math.atan2(dy, dx) in units of PI/4, for the eight compass displacements
Atan2Units(dy, dx) ==
    CASE dy = 0 /\ dx > 0 -> 0
      [] dy > 0 /\ dx = dy -> 1
      [] dy > 0 /\ dx = 0 -> 2
      [] dy > 0 /\ dx = -dy -> 3
      [] dy = 0 /\ dx < 0 -> 4
      [] dy < 0 /\ dx = dy -> -3
      [] dy < 0 /\ dx = 0 -> -2
      [] dy < 0 /\ dx = -dy -> -1
      [] dy = 0 /\ dx = 0 -> 0

\* the throttle test with a strict comparison
MoveDue_Strict(t, last) == t - last > moveThrottleMs

\* line 226: now - this.lastMoveTime >= this.moveThrottleMs
MoveDue(t, last) == t - last >= moveThrottleMs

\* line 287: now - this.lastScrollTime >= this.scrollThrottleMs
ScrollDue(t, last) == t - last >= scrollThrottleMs

\* the delta carried without the accumulated rotations
ScrollDelta_TriggerOnly(pending, rotation) == rotation

\* lines 284 and 291: the accumulator after the triggering event is what is emitted
ScrollDelta(pending, rotation) == pending + rotation

\* lines 227-249: velocity, distance and direction of a sample
Kinematics(t, currentPosition) ==
    IF lastPosition # <<>> /\ lastMoveTime > 0
    THEN LET dx       == currentPosition.x - lastPosition[1].x
             dy       == currentPosition.y - lastPosition[1].y
             distance == Sqrt(dx * dx + dy * dy)
             timeDiff == t - lastMoveTime
         IN  [distance  |-> distance,
              velocity  |-> IF timeDiff > 0 THEN F64Div(F64(distance), F64(timeDiff))
                            ELSE F64Zero,
              direction |-> IF distance > 0 THEN Atan2Units(dy, dx) ELSE 0]
    ELSE [distance |-> 0, velocity |-> F64Zero, direction |-> 0]

\* EventManager.addEvent for each emitted mouse event, in order
RECURSIVE AsActivityEvents(_)
AsActivityEvents(emitted) ==
    IF emitted = <<>> THEN <<>>
    ELSE Append(AsActivityEvents(SubSeq(emitted, 1, Len(emitted) - 1)),
                ActivityEvent(Len(emitted), "mouse", emitted[Len(emitted)]))

\* the window that holds the emitted mouse events
SampleWindow(emitted) ==
    processEventsForWindow(AsActivityEvents(emitted), Epoch, Epoch + WINDOW_INTERVAL_MS)

\* what the harness still follows: MaxRaw raw events, or the burst
RawAllowed(gap, isBurstMove) ==
    \/ rawMoves + rawWheels < MaxRaw
    \/ burst /\ isBurstMove /\ gap = 1 /\ rawMoves < BurstMoves

\* MouseHandler.start
SamplerStart(ok) ==
    /\ sSessions < MaxSessions
    /\ sTracking' = IF sTracking THEN TRUE ELSE ok
    /\ sSessions' = IF ~sTracking /\ ok THEN sSessions + 1 ELSE sSessions
    /\ sessionMoves' = IF ~sTracking /\ ok THEN 0 ELSE sessionMoves
    /\ UNCHANGED <<sNow, pointer, lastPosition, lastMoveTime, lastScrollTime,
                   pendingScrollDelta, samples, sampleData, rawMoves, rawWheels,
                   rawRotation, burst>>
    /\ UNCHANGED <<pipelineVars, clickVars, summaryVars, keyboardVars, windowVars, standaloneVars>>

\* MouseHandler.stop
SamplerStop ==
    /\ sTracking
    /\ sTracking' = FALSE
    /\ UNCHANGED <<sNow, pointer, lastPosition, lastMoveTime, lastScrollTime,
                   pendingScrollDelta, samples, sampleData, rawMoves, rawWheels,
                   rawRotation, burst,
                   sSessions, sessionMoves>>
    /\ UNCHANGED <<pipelineVars, clickVars, summaryVars, keyboardVars, windowVars, standaloneVars>>

\* the 'mousemove' listener
RawMove(gap, step) ==
    /\ sTracking
    /\ RawAllowed(gap, step = BurstStep)
    /\ sNow' = sNow + gap
    /\ pointer' = [x |-> pointer.x + step.dx, y |-> pointer.y + step.dy]
    /\ rawMoves' = rawMoves + 1
    /\ burst' = (burst /\ gap = 1 /\ step = BurstStep)
    /\ IF MoveDue(sNow', lastMoveTime)
       THEN LET k == Kinematics(sNow', pointer')
            IN  /\ samples' = Append(samples,
                                     MouseMoveSample(pointer'.x, pointer'.y, k.velocity,
                                                     k.distance, k.direction, sNow'))
                /\ StoreEvent
                /\ lastPosition' = <<pointer'>>
                /\ lastMoveTime' = sNow'
                /\ sessionMoves' = sessionMoves + 1
       ELSE /\ lastPosition' = <<pointer'>>
            /\ UNCHANGED <<samples, lastMoveTime, sessionMoves, standaloneVars>>
    /\ sampleData' = SampleWindow(samples')
    /\ UNCHANGED <<sTracking, lastScrollTime, pendingScrollDelta, rawWheels, rawRotation,
                   sSessions>>
    /\ UNCHANGED <<pipelineVars, clickVars, summaryVars, keyboardVars, windowVars>>

\* the 'wheel' listener
RawWheel(gap, rotation) ==
    /\ sTracking
    /\ RawAllowed(gap, FALSE)
    /\ sNow' = sNow + gap
    /\ rawWheels' = rawWheels + 1
    /\ rawRotation' = rawRotation + rotation
    /\ burst' = FALSE
    /\ IF ScrollDue(sNow', lastScrollTime)
       THEN /\ samples' = Append(samples,
                                 MouseScrollEvent(pointer.x, pointer.y,
                                                  ScrollDelta(pendingScrollDelta, rotation),
                                                  sNow'))
            /\ StoreEvent
            /\ pendingScrollDelta' = 0
            /\ lastScrollTime' = sNow'
       ELSE /\ pendingScrollDelta' = pendingScrollDelta + rotation
            /\ UNCHANGED <<samples, lastScrollTime, standaloneVars>>
    /\ sampleData' = SampleWindow(samples')
    /\ UNCHANGED <<sTracking, pointer, lastPosition, lastMoveTime, rawMoves, sSessions,
                   sessionMoves>>
    /\ UNCHANGED <<pipelineVars, clickVars, summaryVars, keyboardVars, windowVars>>

SamplerNext ==
    \/ \E ok \in BOOLEAN : SamplerStart(ok)
    \/ SamplerStop
    \/ \E gap \in MoveGaps, step \in MoveSteps : RawMove(gap, step)
    \/ \E gap \in WheelGaps, rotation \in Rotations : RawWheel(gap, rotation)

SamplerSpec == Init /\ [][SamplerNext]_vars

\* time passes without a raw event: the MouseHandler sets no timer, so no code
\* of the handler runs
Quiet ==
    /\ sTracking
    /\ sNow + scrollThrottleMs <= Epoch + MaxQuietMs
    /\ sNow' = sNow + scrollThrottleMs
    /\ burst' = FALSE
    /\ UNCHANGED <<sTracking, pointer, lastPosition, lastMoveTime, lastScrollTime,
                   pendingScrollDelta, samples, sampleData, rawMoves, rawWheels,
                   rawRotation, sSessions, sessionMoves>>
    /\ UNCHANGED <<pipelineVars, clickVars, summaryVars, keyboardVars, windowVars, standaloneVars>>

QuietSamplerNext == SamplerNext \/ Quiet

\* the clock is the only party that is bound to move: uiohook reports a raw
\* event when the user produces one
QuietSamplerSpec == Init /\ [][QuietSamplerNext]_vars /\ WF_vars(Quiet)

(***************************************************************************)
(* The summary harness: mouse events of the three kinds and keyboard       *)
(* events arrive in timestamp order in one window, which is processed as   *)
(* publishWindowData processes a window; next to it, the windows that hold *)
(* only the events of one kind are processed.                              *)
(***************************************************************************)
SummaryArrivals ==
    {[category |-> "mouse", event |-> MouseClickEvent(5, 5, b, t)] :
         b \in ClickButtons, t \in SummaryTimes}
    \cup {[category |-> "mouse",
           event |-> MouseMoveSample(10, 0, k.velocity, k.distance, k.direction, t)] :
              k \in SummaryKinematics, t \in SummaryTimes}
    \cup {[category |-> "mouse", event |-> MouseScrollEvent(5, 5, d, t)] :
              d \in ScrollDeltas, t \in SummaryTimes}
    \cup {[category |-> "keyboard", event |-> KeyDownEvent(key, t)] :
              key \in KeyDownInputs, t \in SummaryTimes}

\* the events of one kind
OfEventType(events, kind) == SelectSeq(events, LAMBDA e : e.event.eventType = kind)

SummaryArrive(arrival) ==
    /\ Len(sumIn) < MaxSummary
    /\ Len(sumIn) > 0 => sumIn[Len(sumIn)].timestamp <= arrival.event.timestamp
    /\ sumIn' = Append(sumIn, ActivityEvent(Len(sumIn) + 1, arrival.category, arrival.event))
    /\ sumData' = processEventsForWindow(sumIn', 0, WINDOW_INTERVAL_MS)
    /\ sumOwn' = [kind \in {"move", "scroll", "click"} |->
                     processEventsForWindow(OfEventType(sumIn', kind), 0, WINDOW_INTERVAL_MS)]
    /\ UNCHANGED <<pipelineVars, clickVars, samplerVars, keyboardVars, windowVars, standaloneVars>>

SummaryNext == \E arrival \in SummaryArrivals : SummaryArrive(arrival)

SummarySpec == Init /\ [][SummaryNext]_vars

(***************************************************************************)
(* The keyboard harness: one KeyboardHandler fed the raw key events of     *)
(* uiohook, which reports the press and the release of a key.  The handler *)
(* registers a listener for 'keydown' and none for 'keyup'.                *)
(***************************************************************************)
\* the KeyboardEvent the 'keydown' listener builds
KeyboardDownEvent(keycode) == [type |-> "key_down", keyCode |-> keycode]

\* KeyboardHandler.start: uIOhook.start() returns (ok) or throws
KeyboardStart(ok) ==
    /\ ~kTracking
    /\ kTracking' = ok
    /\ lastKeyEvent' = [k \in KeyCodes |-> "none"]
    /\ UNCHANGED <<keyStates, keyEvents>>
    /\ UNCHANGED <<pipelineVars, clickVars, samplerVars, summaryVars, windowVars, standaloneVars>>

\* KeyboardHandler.stop
KeyboardStop ==
    /\ kTracking
    /\ kTracking' = FALSE
    /\ keyStates' = {}
    /\ UNCHANGED <<keyEvents, lastKeyEvent>>
    /\ UNCHANGED <<pipelineVars, clickVars, samplerVars, summaryVars, windowVars, standaloneVars>>

\* the 'keydown' listener
RawKeyDown(keycode) ==
    /\ kTracking
    /\ Len(keyEvents) < MaxKeyEvents
    /\ keyStates' = keyStates \cup {keycode}
    /\ keyEvents' = Append(keyEvents, KeyboardDownEvent(keycode))
    /\ lastKeyEvent' = [lastKeyEvent EXCEPT ![keycode] = "down"]
    /\ UNCHANGED kTracking
    /\ UNCHANGED <<pipelineVars, clickVars, samplerVars, summaryVars, windowVars, standaloneVars>>

\* uiohook reports a key release: setupUiohookListeners registered no
\* listener for 'keyup', so nothing of the handler changes
RawKeyUp(keycode) ==
    /\ kTracking
    /\ lastKeyEvent[keycode] = "down"
    /\ lastKeyEvent' = [lastKeyEvent EXCEPT ![keycode] = "up"]
    /\ UNCHANGED <<kTracking, keyStates, keyEvents>>
    /\ UNCHANGED <<pipelineVars, clickVars, samplerVars, summaryVars, windowVars, standaloneVars>>

\* KeyboardHandler.getPressedKeys
getPressedKeys == keyStates

\* KeyboardHandler.isKeyPressed
isKeyPressed(keyCode) == keyCode \in keyStates

KeyboardNext ==
    \/ \E ok \in BOOLEAN : KeyboardStart(ok)
    \/ KeyboardStop
    \/ \E keycode \in KeyCodes : RawKeyDown(keycode)
    \/ \E keycode \in KeyCodes : RawKeyUp(keycode)

KeyboardSpec == Init /\ [][KeyboardNext]_vars

(***************************************************************************)
(* The window harness: one WindowHandler whose polls of the active window  *)
(* overlap: a poll is suspended at `await activeWindow()` while the timer  *)
(* starts the next, and the suspended polls are resumed in any order with  *)
(* any result, also after stop().                                          *)
(***************************************************************************)
\* checkWindowChange up to its await: nothing happens unless tracking
BeginPoll ==
    IF wTracking
    THEN /\ pollsInFlight' = pollsInFlight + 1
         /\ pollsStarted' = pollsStarted + 1
    ELSE UNCHANGED <<pollsInFlight, pollsStarted>>

\* WindowHandler.start, with startPolling
WindowStart ==
    /\ ~wTracking
    /\ wSession < MaxSessions
    /\ pollsStarted < MaxPolls
    /\ wTracking' = TRUE
    /\ wSession' = wSession + 1
    /\ pollsInFlight' = pollsInFlight + 1
    /\ pollsStarted' = pollsStarted + 1
    /\ pollInterval' = TRUE
    /\ UNCHANGED <<wCurrent, windowEmitted, windowErrors>>
    /\ UNCHANGED <<pipelineVars, clickVars, samplerVars, summaryVars, keyboardVars, standaloneVars>>

\* WindowHandler.stop, with stopPolling
WindowStop ==
    /\ wTracking
    /\ wTracking' = FALSE
    /\ pollInterval' = FALSE
    /\ wCurrent' = NoWindow
    /\ UNCHANGED <<pollsInFlight, windowEmitted, windowErrors, wSession, pollsStarted>>
    /\ UNCHANGED <<pipelineVars, clickVars, samplerVars, summaryVars, keyboardVars, standaloneVars>>

\* the interval callback of startPolling
PollTimer ==
    /\ pollInterval
    /\ pollsStarted < MaxPolls
    /\ BeginPoll
    /\ UNCHANGED <<wTracking, pollInterval, wCurrent, windowEmitted, windowErrors, wSession>>
    /\ UNCHANGED <<pipelineVars, clickVars, samplerVars, summaryVars, keyboardVars, standaloneVars>>

\* checkWindowChange after activeWindow() resolved with `info`: lines 79-111
PollResolve(info) ==
    /\ pollsInFlight > 0
    /\ pollsInFlight' = pollsInFlight - 1
    /\ IF hasWindowChanged(wCurrent, info)
       THEN /\ wCurrent' = info
            /\ windowEmitted' = Append(windowEmitted,
                                       [activeApp   |-> info.activeApp,
                                        windowTitle |-> info.windowTitle,
                                        session     |-> IF wTracking THEN wSession ELSE 0])
       ELSE UNCHANGED <<wCurrent, windowEmitted>>
    /\ UNCHANGED <<wTracking, pollInterval, windowErrors, wSession, pollsStarted>>
    /\ UNCHANGED <<pipelineVars, clickVars, samplerVars, summaryVars, keyboardVars, standaloneVars>>

\* checkWindowChange after activeWindow() rejected: lines 112-122
PollReject ==
    /\ pollsInFlight > 0
    /\ pollsInFlight' = pollsInFlight - 1
    /\ windowErrors' = windowErrors + 1
    /\ UNCHANGED <<wTracking, pollInterval, wCurrent, windowEmitted, wSession, pollsStarted>>
    /\ UNCHANGED <<pipelineVars, clickVars, samplerVars, summaryVars, keyboardVars, standaloneVars>>

WindowNext ==
    \/ WindowStart
    \/ WindowStop
    \/ PollTimer
    \/ \E info \in PolledWindows : PollResolve(info)
    \/ PollReject

WindowSpec == Init /\ [][WindowNext]_vars

(***************************************************************************)
(* Vocabulary of the properties                                            *)
(***************************************************************************)
InflightTicks == {rec.tick : rec \in inflight}

PublishedAt(t) == {i \in 1..Len(published) : published[i].tick = t}

PublishedWith(id) == {i \in 1..Len(published) : \E k \in 1..Len(published[i].eventIds) :
                                                    published[i].eventIds[k] = id}

BufferedIds == {windowedEvents[i].id : i \in 1..Len(windowedEvents)}

SelectedInflight ==
    UNION {{rec.windowEvents[i].id : i \in 1..Len(rec.windowEvents)} : rec \in inflight}


(***************************************************************************)
(* Properties                                                              *)
(***************************************************************************)
\* C1: every event appended to the buffer is in the events of exactly one
\* published window: it is never in two, and an event that is in none is one
\* that is still waiting for its window (buffered, or selected by a tick whose
\* publication is pending).
C1_EveryEventInExactlyOneWindow ==
    \A id \in 1..eventCounter :
        /\ Cardinality(PublishedWith(id)) <= 1
        /\ Cardinality(PublishedWith(id)) = 0 => id \in BufferedIds \cup SelectedInflight

\* C2: the windows of consecutive ticks of one run are contiguous:
\* windowEndTime(n) = windowStartTime(n+1).
C2_WindowsContiguous ==
    \A i, j \in 1..Len(published) :
        (published[i].starts = published[j].starts /\ published[j].tick = published[i].tick + 1)
            => published[i].data.windowEndTime = published[j].data.windowStartTime

\* C4: 'window-data' payloads are emitted in non-decreasing windowStartTime order.
C4_EmittedInWindowStartOrder ==
    \A i, j \in 1..Len(published) :
        i < j => published[i].data.windowStartTime <= published[j].data.windowStartTime

\* C6: once stop() has returned, no further 'window-data' is emitted until the
\* next start().
C6_NoWindowDataAfterStop == ~isRunning => Len(published) = pubAtStop

\* C7: once stop() has returned, no event is appended to the buffer (and no
\* 'activity-event' emitted) until the next start().
C7_NoEventAfterStop == ~isRunning => eventCounter = ctrAtStop


\* C3: an event appended while a tick is flushing (selection done, capture
\* awaited, prune pending) is not lost: it stays in the buffer until a later
\* tick has published, and the window of the next tick of the run contains it.
C3_FlushAppendNotLost ==
    \A id \in 1..eventCounter :
        evlog[id].flushing =>
            /\ (\A i \in 1..Len(published) : published[i].tick <= evlog[id].ticks)
                   => id \in BufferedIds
            /\ \A i \in 1..Len(published) :
                   (published[i].tick = evlog[id].ticks + 1 /\ published[i].starts = evlog[id].starts)
                       => i \in PublishedWith(id)

\* C5: every timer tick leads to exactly one 'window-data' emission for that
\* tick: a tick whose publishWindowData is no longer suspended has emitted once,
\* and no tick emits twice.
C5_EveryTickEmitsOnce ==
    \A t \in 1..tickCount :
        /\ Cardinality(PublishedAt(t)) <= 1
        /\ t \notin InflightTicks => Cardinality(PublishedAt(t)) = 1

\* C8: a tick whose screenshot capture failed is still published, with the
\* data of its events and an empty screenshot field.
C8_SnapshotSoftFail ==
    \A t \in failed :
        \E i \in PublishedAt(t) : published[i].data.screenshotUrl = ""

\* C9: the snapshot wait is bounded: a tick that awaits a provider which
\* neither returns nor fails is eventually published, with an empty screenshot.
C9_SnapshotWaitBounded ==
    \A t \in 1..MaxTicks :
        (t \in InflightTicks)
            ~> (\/ t \notin InflightTicks
                \/ \E i \in PublishedAt(t) : published[i].data.screenshotUrl = "")

\* the clustering rule as the claim words it: the clusterer is handed the Click
\* events only; a click merges into the last cluster when the button is the
\* same, the cluster's latest timestamp is at most 500 ms before the click and
\* the cluster's position is at most 5 px away
ClaimedStep(clusters, click) ==
    IF /\ Len(clusters) > 0
       /\ clusters[Len(clusters)].button = click.event.button
       /\ click.timestamp - clusters[Len(clusters)].timestamp <= 500
       /\ SquaredDistance(clusters[Len(clusters)], click.event) <= 5 * 5
    THEN [clusters EXCEPT ![Len(clusters)].numberOfClicks = @ + 1,
                          ![Len(clusters)].timestamp = click.timestamp]
    ELSE Append(clusters, [x |-> click.event.x, y |-> click.event.y,
                           button |-> click.event.button,
                           numberOfClicks |-> 1, timestamp |-> click.timestamp])

RECURSIVE ClaimedFrom(_, _, _)
ClaimedFrom(clicks, i, clusters) ==
    IF i > Len(clicks) THEN clusters
    ELSE ClaimedFrom(clicks, i + 1, ClaimedStep(clusters, clicks[i]))

IsClick(e) == e.event.eventType = "click"

ClaimedClusters(events) == ClaimedFrom(SelectSeq(events, IsClick), 1, <<>>)

\* the click clusters of a result of aggregateMouseClicks
ClustersOf(aggregated) ==
    MapSeq(SelectSeq(aggregated, IsClick),
           LAMBDA a : [x |-> a.event.x, y |-> a.event.y, button |-> a.event.button,
                       numberOfClicks |-> a.numberOfClicks, timestamp |-> a.timestamp])

\* C10: the click clusters of a window are those of the clustering rule applied
\* to its clicks in arrival order; so N clicks of one button at one position,
\* each within tolerance of the prior, give one cluster with numberOfClicks = N.
C10_ClusteringRule == ClustersOf(clickOut) = ClaimedClusters(clickIn)


\* the last click cluster of a result of aggregateMouseClicks
LastCluster(aggregated) == ClustersOf(aggregated)[Len(ClustersOf(aggregated))]

\* the three conditions of a merge, between a cluster and a click
SameButton(cluster, click) == cluster.button = click.event.button

WithinTime(cluster, click) == click.timestamp - cluster.timestamp <= 500

WithinRadius(cluster, click) ==
    (cluster.x - click.event.x) * (cluster.x - click.event.x)
        + (cluster.y - click.event.y) * (cluster.y - click.event.y) <= 25

\* C11: a click is merged into a cluster only when the button is the same, the
\* cluster's latest timestamp is at most 500 ms before the click and the
\* cluster's position at most 5 px away, all three together; a click that
\* fails one of the three against the last cluster starts a new cluster with
\* numberOfClicks = 1.
C11_MergeOnlyWithinAllTolerances ==
    [][ (Len(clickIn') = Len(clickIn) + 1 /\ IsClick(clickIn'[Len(clickIn')])) =>
          LET click  == clickIn'[Len(clickIn')]
              merged == Len(clickOut') = Len(clickOut)
          IN  /\ merged =>
                    /\ ClustersOf(clickOut) # <<>>
                    /\ SameButton(LastCluster(clickOut), click)
                    /\ WithinTime(LastCluster(clickOut), click)
                    /\ WithinRadius(LastCluster(clickOut), click)
                    /\ LastCluster(clickOut').numberOfClicks
                           = LastCluster(clickOut).numberOfClicks + 1
              /\ (\/ ClustersOf(clickOut) = <<>>
                  \/ ~SameButton(LastCluster(clickOut), click)
                  \/ ~WithinTime(LastCluster(clickOut), click)
                  \/ ~WithinRadius(LastCluster(clickOut), click)) =>
                    /\ Len(ClustersOf(clickOut')) = Len(ClustersOf(clickOut)) + 1
                    /\ LastCluster(clickOut').numberOfClicks = 1
                    /\ \A i \in 1..Len(ClustersOf(clickOut)) :
                           ClustersOf(clickOut')[i] = ClustersOf(clickOut)[i]
      ]_vars

\* two clicks merged, then a click of the other button at the same place and
\* time, which started a cluster of its own
C11_Witness ==
    /\ Len(clickIn) = 3
    /\ \A i \in 1..3 : IsClick(clickIn[i])
    /\ clickIn[3].event.button # clickIn[2].event.button
    /\ clickIn[3].timestamp - clickIn[2].timestamp <= 500
    /\ clickIn[3].event.x = clickIn[1].event.x /\ clickIn[3].event.y = clickIn[1].event.y
    /\ Len(clickOut) = 2
    /\ clickOut[1].numberOfClicks = 2
    /\ clickOut[2].numberOfClicks = 1

\* the click clusters of the window of the clustering harness, as published
PublishedClusters(data) == SelectSeq(data.mouseEvents, LAMBDA e : e.eventType = "click")

\* C12: the click summary of a window counts its click clusters: totalClicks is
\* their number, doubleClicks the number of those with numberOfClicks >= 2,
\* leftClicks and rightClicks the number of those of that button, and clickRate
\* is totalClicks / (durationMs / 1000); three left clicks at t=0 (5,5),
\* t=100 (6,5), t=2000 (5,5) give totalClicks 2, leftClicks 2, doubleClicks 1.
C12_ClickSummaryCountsClusters ==
    LET summary  == clickData.clickSummary
        clusters == PublishedClusters(clickData)
        buttons  == ClustersOf(clickOut)
    IN  /\ Len(clusters) = Len(buttons)
        /\ summary.totalClicks = Len(clusters)
        /\ summary.doubleClicks
               = Cardinality({i \in 1..Len(clusters) : clusters[i].numberOfClicks >= 2})
        /\ summary.leftClicks
               = Cardinality({i \in 1..Len(buttons) : buttons[i].button = "left"})
        /\ summary.rightClicks
               = Cardinality({i \in 1..Len(buttons) : buttons[i].button = "right"})
        \* clickRate is held in hundredths of a click per second
        /\ summary.clickRate * clickData.durationMs = summary.totalClicks * 1000 * 100
        /\ (clickIn = <<ActivityEvent(1, "mouse", MouseClickEvent(5, 5, "left", 0)),
                        ActivityEvent(2, "mouse", MouseClickEvent(6, 5, "left", 100)),
                        ActivityEvent(3, "mouse", MouseClickEvent(5, 5, "left", 2000))>>)
               => /\ summary.totalClicks = 2
                  /\ summary.leftClicks = 2
                  /\ summary.doubleClicks = 1

\* the window of the three left clicks at t=0, t=100 and t=2000, summarised
C12_Witness ==
    /\ Len(clickIn) = 3
    /\ \A i \in 1..3 : IsClick(clickIn[i]) /\ clickIn[i].event.button = "left"
    /\ clickIn[1].timestamp = 0 /\ clickIn[2].timestamp = 100 /\ clickIn[3].timestamp = 2000
    /\ clickIn[1].event.x = 5 /\ clickIn[2].event.x = 6 /\ clickIn[3].event.x = 5
    /\ clickData.clickSummary.totalClicks = 2
    /\ clickData.clickSummary.doubleClicks = 1
    /\ clickData.clickSummary.clickRate = 10

\* the Move samples and the Scroll events among the emitted mouse events
MoveSamples(emitted) == SelectSeq(emitted, LAMBDA e : e.eventType = "move")

ScrollSamples(emitted) == SelectSeq(emitted, LAMBDA e : e.eventType = "scroll")

SpacedAtLeast(s, ms) == \A i \in 1..Len(s) - 1 : s[i + 1].timestamp - s[i].timestamp >= ms

\* C13: a raw move is emitted as a Move sample if and only if at least 100 ms
\* have elapsed since the previously emitted sample (the first one is emitted),
\* so consecutive Move samples are at least 100 ms apart; 1000 raw moves 1 ms
\* apart yield 10 (plus or minus 1) samples.
C13_MoveThrottling ==
    [][ /\ (rawMoves' = rawMoves + 1) =>
              LET before == MoveSamples(samples)
                  after  == MoveSamples(samples')
              IN  /\ Len(after) \in {Len(before), Len(before) + 1}
                  /\ (Len(after) = Len(before) + 1)
                        <=> (\/ before = <<>>
                             \/ sNow' - before[Len(before)].timestamp >= 100)
                  /\ (Len(after) = Len(before) + 1) => after[Len(after)].timestamp = sNow'
        /\ SpacedAtLeast(MoveSamples(samples'), 100)
        /\ (burst' /\ rawMoves' = 1000) => Len(MoveSamples(samples')) \in 9..11
      ]_vars

\* the burst of 1000 raw moves 1 ms apart has been sampled: 10 of them were
\* emitted, each 100 ms after the one before, and the others were not
C13_Witness ==
    /\ burst /\ rawMoves = 1000
    /\ Len(MoveSamples(samples)) = 10
    /\ \A i \in 1..9 : samples[i + 1].timestamp - samples[i].timestamp = 100

RECURSIVE SumWheelDelta(_)
SumWheelDelta(s) == IF s = <<>> THEN 0 ELSE s[1].wheelDelta + SumWheelDelta(Tail(s))

\* C14: an emitted Scroll event carries the signed sum of the rotations of the
\* raw wheel events handled since the previous emission, the triggering one
\* included; pendingScrollDelta is zero right after an emission; consecutive
\* Scroll emissions are at least 150 ms apart; and always the emitted wheelDelta
\* plus pendingScrollDelta add up to the sum of all raw rotations.
C14_ScrollAggregation ==
    [][ /\ (rawWheels' = rawWheels + 1) =>
              LET before == ScrollSamples(samples)
                  after  == ScrollSamples(samples')
              IN  /\ Len(after) \in {Len(before), Len(before) + 1}
                  /\ (Len(after) = Len(before) + 1) =>
                        /\ after[Len(after)].wheelDelta = rawRotation' - SumWheelDelta(before)
                        /\ pendingScrollDelta' = 0
        /\ SpacedAtLeast(ScrollSamples(samples'), 150)
        /\ SumWheelDelta(ScrollSamples(samples')) + pendingScrollDelta' = rawRotation'
      ]_vars

\* a Scroll event that carries three raw rotations, two of them accumulated
\* while the throttle was closed, one of them of the other sign
C14_Witness ==
    /\ rawWheels = 4
    /\ Len(ScrollSamples(samples)) = 2
    /\ samples[Len(samples)].eventType = "scroll"
    /\ samples[Len(samples)].wheelDelta = 3
    /\ rawRotation = samples[1].wheelDelta + 3
    /\ pendingScrollDelta = 0

\* the Move samples of a window, as published
PublishedMoves(data) == SelectSeq(data.mouseEvents, LAMBDA e : e.eventType = "move")

\* the turn between two directions, angles in units of 45 degrees
Turn(a, b) == IF a - b < 0 THEN b - a ELSE a - b

\* C15: directionalChanges of a window is the number of Move samples whose
\* direction differs from that of the sample before by more than 45 and less
\* than 315 degrees; the throttled samples at (0,0), (10,0), (20,0), (20,10)
\* have exactly 1, the 90 degree turn.
C15_DirectionChanges ==
    LET moves == PublishedMoves(sampleData)
    IN  /\ sampleData.movementSummary.directionalChanges
              = Cardinality({i \in 2..Len(moves) :
                                /\ Turn(moves[i].direction, moves[i - 1].direction) > 1
                                /\ Turn(moves[i].direction, moves[i - 1].direction) < 8 - 1})
        /\ (/\ Len(moves) = 4
            /\ <<moves[1].x, moves[1].y>> = <<0, 0>>
            /\ <<moves[2].x, moves[2].y>> = <<10, 0>>
            /\ <<moves[3].x, moves[3].y>> = <<20, 0>>
            /\ <<moves[4].x, moves[4].y>> = <<20, 10>>)
               => sampleData.movementSummary.directionalChanges = 1

NoneOfKind(data, kind) == \A i \in 1..Len(data.mouseEvents) : data.mouseEvents[i].eventType # kind

\* C16: a window with no Move events has a movementSummary whose fields are all
\* 0, one with no Scroll events has scrollSummary {0, 0, 0, 'mixed'}, one with
\* no Click events has a clickSummary whose fields are all 0; a window's three
\* summaries are always there, with every field filled.
C16_EmptyWindowZeroSummary ==
    /\ NoneOfKind(sumData, "move") =>
           sumData.movementSummary
               = [totalDistance |-> 0, averageVelocity |-> 0, maxVelocity |-> 0,
                  directionalChanges |-> 0, movementVariance |-> 0, moveCount |-> 0]
    /\ NoneOfKind(sumData, "scroll") =>
           sumData.scrollSummary
               = [totalScrollDelta |-> 0, scrollCount |-> 0, averageScrollAmount |-> 0,
                  scrollDirection |-> "mixed"]
    /\ NoneOfKind(sumData, "click") =>
           sumData.clickSummary
               = [totalClicks |-> 0, clickRate |-> 0, doubleClicks |-> 0,
                  leftClicks |-> 0, rightClicks |-> 0]
    /\ DOMAIN sumData.movementSummary
           = {"totalDistance", "averageVelocity", "maxVelocity", "directionalChanges",
              "movementVariance", "moveCount"}
    /\ DOMAIN sumData.scrollSummary
           = {"totalScrollDelta", "scrollCount", "averageScrollAmount", "scrollDirection"}
    /\ DOMAIN sumData.clickSummary
           = {"totalClicks", "clickRate", "doubleClicks", "leftClicks", "rightClicks"}
    /\ \A f \in DOMAIN sumData.movementSummary : sumData.movementSummary[f] >= 0
    /\ sumData.scrollSummary.averageScrollAmount >= 0
    /\ sumData.clickSummary.clickRate >= 0

\* a window with a click and a key press, no move and no scroll, was summarised
C16_Witness ==
    /\ Len(sumIn) = 2
    /\ sumIn[1].event.eventType = "click"
    /\ sumIn[2].category = "keyboard"
    /\ sumData.clickSummary.totalClicks = 1
    /\ sumData.movementSummary.moveCount = 0
    /\ sumData.scrollSummary.scrollDirection = "mixed"

\* C18: each summary depends only on the events of its own kind: a window has
\* the movementSummary of the window holding only its Move events, the
\* scrollSummary of the one holding only its Scroll events, and the
\* clickSummary and the click clusters of the one holding only its Click
\* events, whatever is interleaved.
C18_SummaryOfOwnKindOnly ==
    /\ sumData.movementSummary = sumOwn["move"].movementSummary
    /\ sumData.scrollSummary = sumOwn["scroll"].scrollSummary
    /\ sumData.clickSummary = sumOwn["click"].clickSummary
    /\ PublishedClusters(sumData) = PublishedClusters(sumOwn["click"])

\* C17: every error an event source reports is forwarded by EventManager as an
\* 'error' event, and the pipeline goes on.
C17_SourceErrorsForwarded == errorsEmitted = sourceErrors

\* C19: the events of a published window are exactly the events the buffer
\* held with timestamp >= windowStart = now - WINDOW_INTERVAL_MS when its tick
\* fired, in arrival order, whatever was appended or pruned while the tick
\* awaited its screenshot.
C19_WindowIsSnapshotAtTick ==
    \A i \in 1..Len(published) :
        LET p       == published[i]
            start   == p.data.windowEndTime - 20000
            atTick  == SelectSeq(p.bufferAtTick, LAMBDA e : e.timestamp >= start)
        IN  /\ p.data.windowStartTime = start
            /\ p.eventIds = [k \in 1..Len(atTick) |-> atTick[k].id]
            /\ \A k \in 1..Len(p.eventIds) - 1 : p.eventIds[k] < p.eventIds[k + 1]
            /\ Len(p.data.mouseEvents) + Len(p.data.keyboardEvents) + Len(p.data.windowEvents)
                   <= Len(atTick)
            /\ Len(p.data.keyboardEvents) + Len(p.data.windowEvents)
                   = Cardinality({k \in 1..Len(atTick) :
                                     atTick[k].category # "mouse"})

\* a window was published with the one event buffered when its tick fired,
\* although a second event was appended while the tick awaited its screenshot
C19_Witness ==
    /\ Len(published) = 1
    /\ published[1].eventIds = <<1>>
    /\ published[1].data.screenshotUrl # ""
    /\ eventCounter = 2
    /\ evlog[2].flushing
    /\ evlog[2].ticks = published[1].tick

\* C20: right after the prune of a tick the buffer holds exactly the events it
\* held just before with timestamp > windowStart of that tick, in the same
\* order; those with timestamp <= windowStart are gone, no newer one is.
C20_PrunePostcondition ==
    [][ (Len(published') = Len(published) + 1) =>
            LET start == published'[Len(published')].data.windowStartTime
                kept  == {k \in 1..Len(windowedEvents) : windowedEvents[k].timestamp > start}
            IN  /\ Len(windowedEvents') = Cardinality(kept)
                /\ \A k \in 1..Len(windowedEvents') : windowedEvents'[k].timestamp > start
                /\ \A k \in kept :
                       \E j \in 1..Len(windowedEvents') : windowedEvents'[j] = windowedEvents[k]
                /\ \A j, k \in 1..Len(windowedEvents') :
                       j < k => windowedEvents'[j].id < windowedEvents'[k].id
      ]_vars

\* a prune has dropped the event stamped windowStart and kept the newer one
C20_Witness ==
    /\ Len(published) = 1
    /\ published[1].eventIds = <<1, 2>>
    /\ BufferedIds = {2}
    /\ inflight = {}

(***************************************************************************)
(* C21: an event whose timestamp is older than the lower bound of the      *)
(* window being flushed is dropped silently.  When the publishWindowData   *)
(* call of a tick comes to its end, every event the buffer held at that     *)
(* tick with a timestamp below the tick's windowStart is in neither that    *)
(* tick's window nor the window of a later tick, is no longer in the        *)
(* buffer, and no 'error' event has been emitted for it.                    *)
(***************************************************************************)
LateAt(rec) ==
    {rec.buffer[i].id : i \in {j \in 1..Len(rec.buffer) :
                                  rec.buffer[j].timestamp < rec.windowStart}}

C21_LateEventDroppedSilently ==
    [][\A rec \in inflight \ inflight' :
          \A id \in LateAt(rec) :
              /\ \A p \in 1..Len(published') :
                     published'[p].tick >= rec.tick =>
                         \A k \in 1..Len(published'[p].eventIds) :
                             published'[p].eventIds[k] # id
              /\ \A k \in 1..Len(windowedEvents') : windowedEvents'[k].id # id
              /\ errorsEmitted' = errorsEmitted]_vars

(***************************************************************************)
(* C22: every emitted Move sample that has a prior sample carries the      *)
(* kinematics of the displacement from the last emitted sample: distance   *)
(* is the Euclidean distance between the two emitted positions, velocity   *)
(* is that distance divided by the milliseconds between the two samples,   *)
(* and direction is the angle of that displacement.                        *)
(***************************************************************************)
IsCompass(dx, dy) == dx = 0 \/ dy = 0 \/ dx = dy \/ dx = -dy

KinematicsFrom(prev, cur) ==
    LET dx == cur.x - prev.x
        dy == cur.y - prev.y
        dt == cur.timestamp - prev.timestamp
    IN  /\ cur.distance * cur.distance = dx * dx + dy * dy
        /\ cur.velocity = IF dt > 0 THEN F64Div(F64(cur.distance), F64(dt)) ELSE F64Zero
        /\ IsCompass(dx, dy) =>
               cur.direction = IF dx = 0 /\ dy = 0 THEN 0 ELSE Atan2Units(dy, dx)

C22_KinematicsFromLastEmitted ==
    LET moves == MoveSamples(samples)
    IN  \A i \in 2..Len(moves) : KinematicsFrom(moves[i - 1], moves[i])

(***************************************************************************)
(* C23: the first Move sample of every tracking session has zero-valued    *)
(* kinematics (distance 0, velocity 0, direction 0), after the first       *)
(* start() and after a stop() followed by a new start().                   *)
(***************************************************************************)
C23_FirstSampleZeroKinematics ==
    [][(sessionMoves = 0 /\ sessionMoves' = 1) =>
           LET first == samples'[Len(samples')]
           IN  /\ first.eventType = "move"
               /\ first.distance = 0
               /\ first.velocity = F64Zero
               /\ first.direction = 0]_vars

(***************************************************************************)
(* C24: clustering is greedy and anchored.  The clusters of a window       *)
(* partition its clicks into runs of consecutive clicks; every merged      *)
(* click is within 5 px of the FIRST click of its cluster, within 500 ms   *)
(* of the click merged just before it, and of the same button; the         *)
(* published cluster carries the first click's position and the last       *)
(* merged click's timestamp.  A new click never changes a cluster other    *)
(* than the last one: one that misses a tolerance of the last cluster      *)
(* starts a new cluster, also when an earlier cluster would fit, and one   *)
(* that directly follows a click and is within the tolerances of the last  *)
(* cluster is merged into it.                                              *)
(***************************************************************************)
ClicksOf(events) == SelectSeq(events, IsClick)

RECURSIVE ClicksBefore(_, _)
ClicksBefore(clusters, j) ==
    IF j <= 1 THEN 0 ELSE ClicksBefore(clusters, j - 1) + clusters[j - 1].numberOfClicks

FirstOf(clusters, j) == ClicksBefore(clusters, j) + 1

LastOf(clusters, j) == ClicksBefore(clusters, j) + clusters[j].numberOfClicks

\* the click is within the tolerances of a cluster whose first click is
\* `anchor` and whose latest merged click is `latest`
FitsCluster(anchor, latest, click) ==
    /\ SquaredDistance(anchor.event, click.event) <= 5 * 5
    /\ click.timestamp - latest.timestamp <= 500
    /\ click.event.button = anchor.event.button

ClustersAnchored(events, clusters) ==
    LET clicks == ClicksOf(events)
    IN  /\ ClicksBefore(clusters, Len(clusters) + 1) = Len(clicks)
        /\ \A j \in 1..Len(clusters) :
               /\ clusters[j].numberOfClicks >= 1
               /\ clusters[j].x = clicks[FirstOf(clusters, j)].event.x
               /\ clusters[j].y = clicks[FirstOf(clusters, j)].event.y
               /\ clusters[j].timestamp = clicks[LastOf(clusters, j)].timestamp
               /\ \A k \in FirstOf(clusters, j) + 1 .. LastOf(clusters, j) :
                      FitsCluster(clicks[FirstOf(clusters, j)], clicks[k - 1], clicks[k])

PublishedScrolls(data) == SelectSeq(data.mouseEvents, LAMBDA e : e.eventType = "scroll")

RECURSIVE SumAbsWheelDelta(_)
SumAbsWheelDelta(s) ==
    IF s = <<>> THEN 0
    ELSE (IF s[1].wheelDelta < 0 THEN -s[1].wheelDelta ELSE s[1].wheelDelta)
             + SumAbsWheelDelta(Tail(s))

(***************************************************************************)
(* C25: the scroll summary of a window has scrollCount equal to the number *)
(* of its Scroll events, totalScrollDelta equal to the signed sum of their *)
(* wheelDelta, and averageScrollAmount equal to the mean of the absolute   *)
(* values of their wheelDelta (rounded to hundredths), also when deltas of *)
(* both signs are present.                                                  *)
(***************************************************************************)
C25_AverageScrollIsMeanOfAbsolutes ==
    LET scrolls == PublishedScrolls(sumData)
        summary == sumData.scrollSummary
    IN  /\ summary.scrollCount = Len(scrolls)
        /\ summary.totalScrollDelta = SumWheelDelta(scrolls)
        /\ Len(scrolls) > 0 =>
               summary.averageScrollAmount
                   = AverageScrollAmount(SumAbsWheelDelta(scrolls), Len(scrolls))

(***************************************************************************)
(* C26: scrollDirection of a window is 'up' exactly when it has a Scroll   *)
(* event with a positive delta and none with a negative delta, 'down'      *)
(* exactly when it has one with a negative delta and none with a positive  *)
(* delta, and 'mixed' in every other case: both signs, only zero deltas,   *)
(* or no Scroll event.                                                      *)
(***************************************************************************)
C26_ScrollDirection ==
    LET scrolls  == PublishedScrolls(sumData)
        positive == \E i \in 1..Len(scrolls) : scrolls[i].wheelDelta > 0
        negative == \E i \in 1..Len(scrolls) : scrolls[i].wheelDelta < 0
        dir      == sumData.scrollSummary.scrollDirection
    IN  /\ dir \in {"up", "down", "mixed"}
        /\ dir = "up" <=> (positive /\ ~negative)
        /\ dir = "down" <=> (negative /\ ~positive)
        /\ dir = "mixed" <=> ((positive /\ negative) \/ (~positive /\ ~negative))

\* a window whose Scroll events have deltas 2, -1 and 2: the signed sum is
\* positive and the direction is 'mixed'
C26_Witness ==
    /\ Len(PublishedScrolls(sumData)) = 3
    /\ PublishedScrolls(sumData)[1].wheelDelta = 2
    /\ PublishedScrolls(sumData)[2].wheelDelta = -1
    /\ PublishedScrolls(sumData)[3].wheelDelta = 2
    /\ sumData.scrollSummary.totalScrollDelta = 3
    /\ sumData.scrollSummary.scrollDirection = "mixed"

(***************************************************************************)
(* C27: the held-key state of KeyboardHandler follows key-ups.  While      *)
(* tracking, getPressedKeys() is exactly the set of keys whose last raw    *)
(* event since start() was a key_down, and isKeyPressed agrees with it:    *)
(* after a key_down followed by a key_up of the same key the key is not    *)
(* reported as pressed.                                                     *)
(***************************************************************************)
C27_HeldKeysFollowKeyUps ==
    kTracking =>
        /\ getPressedKeys = {k \in KeyCodes : lastKeyEvent[k] = "down"}
        /\ \A k \in KeyCodes : isKeyPressed(k) <=> lastKeyEvent[k] = "down"

\* the window events emitted while tracking in session `n`, in order
EmittedIn(emitted, n) == SelectSeq(emitted, LAMBDA e : e.session = n)

SameWindow(a, b) == a.activeApp = b.activeApp /\ a.windowTitle = b.windowTitle

(***************************************************************************)
(* C28: WindowHandler emits one 'window-event' per detected focus change.  *)
(* Within a tracking session a poll emits only when its (activeApp,        *)
(* windowTitle) differs from the last event emitted in the session, so no  *)
(* two consecutively emitted events of a session carry the same            *)
(* (activeApp, windowTitle), however the overlapping polls are resumed.    *)
(***************************************************************************)
C28_OneEventPerFocusChange ==
    [][ /\ (wTracking /\ Len(windowEmitted') = Len(windowEmitted) + 1) =>
              LET new    == windowEmitted'[Len(windowEmitted')]
                  before == EmittedIn(windowEmitted, wSession)
              IN  /\ new.session = wSession
                  /\ before # <<>> => ~SameWindow(before[Len(before)], new)
        /\ \A i \in 1..Len(windowEmitted') - 1 :
               (/\ windowEmitted'[i].session # 0
                /\ windowEmitted'[i].session = windowEmitted'[i + 1].session)
                   => ~SameWindow(windowEmitted'[i], windowEmitted'[i + 1])
      ]_vars

\* one session in which four polls were started and resumed, none failed,
\* and the focus was seen on three windows in turn: three events
C28_Witness ==
    /\ wTracking /\ wSession = 1
    /\ pollsStarted = 4 /\ pollsInFlight = 0 /\ windowErrors = 0
    /\ Len(windowEmitted) = 3
    /\ windowEmitted[1].activeApp = "Code" /\ windowEmitted[1].windowTitle = "main.ts"
    /\ windowEmitted[2].activeApp = "Code" /\ windowEmitted[2].windowTitle = "README.md"
    /\ windowEmitted[3].activeApp = "No Active Window"

(***************************************************************************)
(* C29: when EventManager.start() fails because the start() of an event    *)
(* source handler throws, the manager is left not running and without a    *)
(* window timer, so that a retried start() passes the isRunning guard and  *)
(* attempts the registration again.                                         *)
(***************************************************************************)
C29_FailedStartLeavesStopped ==
    [][(/\ startCount' = startCount + 1
        /\ (~mouseTracking' \/ ~keyboardTracking'))
           => (~isRunning' /\ ~statsInterval')]_vars

(***************************************************************************)
(* C30: after any sequence of start() and stop() calls at most one window  *)
(* timer is active, and one is active exactly when isRunning is true.      *)
(***************************************************************************)
C30_OneTimerIffRunning ==
    /\ activeTimers <= 1
    /\ activeTimers = 1 <=> isRunning

(***************************************************************************)
(* C31: after any sequence of start()/stop() cycles, while the manager is  *)
(* running exactly one EventManager listener is registered per handler     *)
(* event, so an event emitted by a handler is appended to the buffer       *)
(* exactly once (its payload is then in a window at most once).            *)
(***************************************************************************)
C31_OneListenerPerHandler ==
    [][ /\ isRunning' => /\ mouseListeners' = 1
                         /\ keyboardListeners' = 1
                         /\ windowListeners' = 1
        /\ eventCounter' # eventCounter =>
               /\ eventCounter' = eventCounter + 1
               /\ Len(windowedEvents') = Len(windowedEvents) + 1
      ]_vars

(***************************************************************************)
(* C32: every published window has windowEndTime - windowStartTime =       *)
(* durationMs = WINDOW_INTERVAL_MS, whatever the real time elapsed since   *)
(* the previous tick or since start().                                     *)
(***************************************************************************)
C32_WindowDurationIsInterval ==
    \A i \in 1..Len(published) :
        /\ published[i].data.windowEndTime - published[i].data.windowStartTime
               = published[i].data.durationMs
        /\ published[i].data.durationMs = WINDOW_INTERVAL_MS

\* two windows of one run whose ticks both ran late, the second 20001 ms
\* after the first, which itself ran 20001 ms after start()
C32_Witness ==
    /\ Len(published) = 2
    /\ published[1].starts = published[2].starts
    /\ published[1].data.windowEndTime = 20001
    /\ published[2].data.windowEndTime = 40002
    /\ published[2].data.durationMs = 20000

\* the mouse events of a window other than clicks, as published and as selected
PublishedNonClicks(data) == SelectSeq(data.mouseEvents, LAMBDA e : e.eventType # "click")

SelectedNonClicks(events) ==
    SelectSeq(events, LAMBDA e : e.category = "mouse" /\ e.event.eventType # "click")

SelectedClicks(events) ==
    SelectSeq(events, LAMBDA e : e.category = "mouse" /\ e.event.eventType = "click")

RECURSIVE SumNumberOfClicks(_)
SumNumberOfClicks(s) ==
    IF s = <<>> THEN 0 ELSE s[1].numberOfClicks + SumNumberOfClicks(Tail(s))

(***************************************************************************)
(* C33: click conservation.  In a window the sum of numberOfClicks over    *)
(* its click clusters equals the number of raw click events selected for   *)
(* it, and every Move and Scroll event selected for it appears exactly     *)
(* once among the published mouse events, with numberOfClicks = 1, in      *)
(* arrival order.                                                           *)
(***************************************************************************)
C33_ClickConservation ==
    LET clusters == PublishedClusters(sumData)
        others   == PublishedNonClicks(sumData)
        raw      == SelectedNonClicks(sumIn)
    IN  /\ SumNumberOfClicks(clusters) = Len(SelectedClicks(sumIn))
        /\ Len(others) = Len(raw)
        /\ \A i \in 1..Len(others) :
               /\ others[i].numberOfClicks = 1
               /\ others[i].eventType = raw[i].event.eventType
               /\ others[i].timestamp = raw[i].timestamp
               /\ others[i].x = raw[i].event.x /\ others[i].y = raw[i].event.y
               /\ others[i].wheelDelta = raw[i].event.wheelDelta
               /\ others[i].velocity = raw[i].event.velocity
               /\ others[i].distance = raw[i].event.distance
               /\ others[i].direction = raw[i].event.direction

\* two clicks merged into one cluster and a Scroll event after them
C33_Witness ==
    /\ Len(sumIn) = 3
    /\ Len(SelectedClicks(sumIn)) = 2
    /\ Len(PublishedClusters(sumData)) = 1
    /\ PublishedClusters(sumData)[1].numberOfClicks = 2
    /\ Len(PublishedNonClicks(sumData)) = 1
    /\ PublishedNonClicks(sumData)[1].eventType = "scroll"

(***************************************************************************)
(* C34: every raw wheel rotation is eventually reported.  Once a wheel     *)
(* event has left its rotation in pendingScrollDelta, a Scroll event       *)
(* carrying it is eventually emitted (the accumulator returns to zero and  *)
(* the emitted deltas add up to the raw rotations), without a further      *)
(* wheel event having to arrive.                                            *)
(***************************************************************************)
C34_RotationEventuallyReported ==
    (sTracking /\ pendingScrollDelta # 0)
        ~> (pendingScrollDelta = 0
            /\ SumWheelDelta(ScrollSamples(samples)) = rawRotation)

(***************************************************************************)
(* C35: after WindowHandler.stop() has returned, no 'window-event' is      *)
(* emitted and currentWindow stays null until start() is called again,     *)
(* also when a poll was suspended at the lookup of the active window when  *)
(* stop() was called.                                                       *)
(***************************************************************************)
C35_NoWindowEventAfterStop ==
    /\ ~wTracking => wCurrent = NoWindow
    /\ \A i \in 1..Len(windowEmitted) : windowEmitted[i].session # 0

\* the event of a buffer that carries the id
WithId(buffer, id) == buffer[CHOOSE i \in 1..Len(buffer) : buffer[i].id = id]

\* the objects of the array aggregateMouseClicks returns for mouseEvents
AggregatedValues(mouseEvents) ==
    LET after == AggregateObjects(mouseEvents, Len(mouseEvents), 1, <<>>)
    IN  [k \in 1..Len(after.aggregated) |-> after.heap[after.aggregated[k]]]

(***************************************************************************)
(* C36: computing a window leaves the events of the buffer unchanged.      *)
(* When the publishWindowData call of a tick ends, every event that is     *)
(* still in the buffer is the event it was before (same timestamp, same    *)
(* payload, no field added by the click clustering), and the buffer is     *)
(* the buffer of before without the events stamped at or before the        *)
(* tick's windowStart: the prune is the only change.  The counts and the   *)
(* timestamps of the clusters are on the objects the clustering made: the  *)
(* array it returns for the mouse events of the buffer holds the clusters, *)
(* each with its numberOfClicks and the timestamp of its last click.       *)
(***************************************************************************)
C36_TickLeavesEventsUnchanged ==
    [][(Len(published') = Len(published) + 1) =>
          LET windowStart == published'[Len(published')].data.windowStartTime
              mouseEvents == OfCategory(windowedEvents, "mouse")
          IN  /\ AggregatedValues(mouseEvents) = aggregateMouseClicks(mouseEvents)
              /\ windowedEvents'
                     = SelectSeq(windowedEvents, LAMBDA e : e.timestamp > windowStart)
              /\ \A k \in 1..Len(windowedEvents') :
                     /\ windowedEvents'[k].id \in BufferedIds
                     /\ windowedEvents'[k] = WithId(windowedEvents, windowedEvents'[k].id)
                     /\ DOMAIN windowedEvents'[k] = {"id", "category", "event", "timestamp"}
      ]_vars

\* a window was published with a cluster of two clicks whose first click is
\* still in the buffer after the prune, stamped as it arrived
C36_Witness ==
    /\ Len(published) >= 1
    /\ Len(PublishedClusters(published[1].data)) = 1
    /\ PublishedClusters(published[1].data)[1].numberOfClicks = 2
    /\ PublishedClusters(published[1].data)[1].timestamp = 20001
    /\ Len(windowedEvents) = 2
    /\ windowedEvents[1].timestamp = 20000
    /\ windowedEvents[2].timestamp = 20001

(***************************************************************************)
(* MouseHandler event history (part_009, lines 104-106 and 325-333)        *)
(***************************************************************************)

\* clearEvents calls the history harness makes
MaxClears == 2

\* the lengths of the history the harness starts from: an array of n events is
\* what n addEvent calls leave, for every n up to maxEvents
HistoryLengths == {0, maxEvents - 1, maxEvents}

\* lines 343-345: MouseHandler.clearEvents
HistoryClear ==
    /\ historySteps < MaxClears
    /\ historySteps' = historySteps + 1
    /\ storedEvents' = <<>>
    /\ UNCHANGED <<addEventCalls, pipelineVars, clickVars, samplerVars, summaryVars,
                   keyboardVars, windowVars, conductorVars, movementVars>>

\* the handler is started, its 'wheel' listener stores the events it emits, and
\* the history is cleared
HistoryNext ==
    \/ \E ok \in BOOLEAN : SamplerStart(ok)
    \/ \E gap \in WheelGaps, rotation \in Rotations : RawWheel(gap, rotation)
    \/ HistoryClear

\* the handler after its first n events
HistoryInit ==
    /\ InitOutsideHistory
    /\ \E n \in HistoryLengths :
           /\ storedEvents = [i \in 1..n |-> i]
           /\ addEventCalls = n
    /\ historySteps = 0

HistorySpec == HistoryInit /\ [][HistoryNext]_vars

(***************************************************************************)
(* C37: the stored event history of the mouse handler is capped.  After    *)
(* every addEvent its length is at most maxEvents (10000), and the append  *)
(* that would take it past 10000 leaves exactly the most recent 9000       *)
(* events, in the order they arrived.                                      *)
(***************************************************************************)
C37_HistoryCapped ==
    [][/\ Len(storedEvents') <= maxEvents
       /\ (Len(storedEvents) = maxEvents /\ addEventCalls' = addEventCalls + 1) =>
              /\ Len(storedEvents') = 9000
              /\ \A i \in 1..9000 : storedEvents'[i] = addEventCalls' - 9000 + i
      ]_vars

\* the append to a full history has happened and one more event was stored
C37_Witness ==
    /\ addEventCalls = 10002
    /\ Len(storedEvents) = 9001
    /\ storedEvents[1] = 1002
    /\ storedEvents[9001] = 10002

\* the graph calls the next node of a run once the node before has returned,
\* and a node that awaits nothing or a timer returns.  Nothing makes a language
\* model answer
ConductorSpec ==
    /\ Init
    /\ [][ConductorNext]_vars
    /\ \A r \in 1..MaxRuns : WF_vars(NodeCall(r)) /\ WF_vars(LocalSettle(r))

\* the plan of the run, empty while no plan was created
PlanOf(state) == IF state.actionPlan = Null THEN <<>> ELSE state.actionPlan[1]

\* the plan indices run r has handed to the response agent, in the order of the calls
HandedOver(r) ==
    LET ofRun == SelectSeq(executedActions, LAMBDA c : c.run = r)
    IN  [i \in 1..Len(ofRun) |-> ofRun[i].index]

\* the actions run r has executed are the first ones of its plan, in plan
\* order, each once, with one result for each one that has returned
ExecutedInPlanOrder(r) ==
    /\ HandedOver(r) = [i \in 1..Len(HandedOver(r)) |-> i - 1]
    /\ Len(HandedOver(r)) <= Len(PlanOf(graphState[r]))
    /\ Len(graphState[r].actionResults) = graphState[r].currentActionIndex
    /\ Len(HandedOver(r)) = graphState[r].currentActionIndex
                               + (IF nodeAwaits[r] # Null /\ nodeAwaits[r][1].agent = "responseAgent"
                                  THEN 1 ELSE 0)
    /\ \A i \in 1..Len(graphState[r].actionResults) :
           graphState[r].actionResults[i].actionExecuted
               = PlanOf(graphState[r])[i].actionName

\* run r has ended exactly when a node has set lastError or the index has
\* reached the length of the plan
EndsOnErrorOrPlanDone(r) ==
    nextNode[r] = END <=>
        \/ graphState[r].lastError # Null
        \/ /\ graphState[r].actionPlan # Null
           /\ graphState[r].currentActionIndex = Len(PlanOf(graphState[r]))

\* an executeAction of run r that returns without an error moves the index by
\* one and appends one result
ExecuteAdvances(r) ==
    (/\ r \in Runs
     /\ nextNode[r] = "executeAction"
     /\ graphState'[r] # graphState[r]
     /\ graphState'[r].lastError = Null) =>
        /\ graphState'[r].currentActionIndex = graphState[r].currentActionIndex + 1
        /\ Len(graphState'[r].actionResults) = Len(graphState[r].actionResults) + 1

\* no node of run r runs once the run has ended
NothingAfterEnd(r) ==
    (r \in Runs /\ nextNode[r] = END) =>
        /\ graphState'[r] = graphState[r]
        /\ nextNode'[r] = END
        /\ nodesRun'[r] = nodesRun[r]

\* run r, once started, ends
RunEnds(r) == (r \in Runs) ~> (r \in Runs /\ nextNode[r] = END)

NodesOfARun == <<"analyzeIntent", "updatePersonality", "createPlan">>

\* run r has called the first nodes of NodesOfARun, each once, never
\* executeAction; it has no plan, has handed no action to the response agent,
\* and its index and results are those of the initial state
NoActionExecuted(r) ==
    /\ Len(nodesRun[r]) <= Len(NodesOfARun)
    /\ nodesRun[r] = SubSeq(NodesOfARun, 1, Len(nodesRun[r]))
    /\ graphState[r].actionPlan = Null
    /\ graphState[r].currentActionIndex = 0
    /\ graphState[r].actionResults = <<>>
    /\ HandedOver(r) = <<>>

\* run r has ended exactly when a node has set lastError, and createPlan
\* always sets it: the planner, called without worldModel, returns an empty plan
EndsOnFirstError(r) ==
    /\ nextNode[r] = END <=> graphState[r].lastError # Null
    /\ (Len(nodesRun[r]) = Len(NodesOfARun) /\ nodeAwaits[r] = Null) =>
           graphState[r].lastError = <<"Invalid action plan: Plan is empty">>
    /\ nextNode[r] # END => nextNode[r] = NodesOfARun[Len(nodesRun[r])
                                              + (IF nodeAwaits[r] = Null THEN 1 ELSE 0)]

MoveSpec ==
    /\ Init
    /\ [][MoveNext]_vars
    /\ WF_vars(MoveTick)
    /\ WF_vars(CursorTicks)
    /\ WF_vars(JerkTimers)
    /\ WF_vars(MoveToTimers)

(***************************************************************************)
(* C39: moveLinear terminates.  For every start position and target, a     *)
(* target equal to the start on one or both axes and per-step offsets that *)
(* round to zero included, the interval is eventually cleared and the      *)
(* promise moveLinear returned resolves.                                   *)
(***************************************************************************)
C39_MoveLinearTerminates == moveIntervalId ~> (~moveIntervalId /\ moveResolved)

====
